---- MODULE Spec2Model ----
(***************************************************************************)
(* State-machine model of the NES emulator core: the 6502 interpreter      *)
(* (src/src/cpu.cpp), the system bus with OAM DMA and interrupt routing    *)
(* (src/src/emulator.cpp), the PPU frame timing (src/unnamed/part_000) and *)
(* the NROM cartridge (src/unnamed/part_004, part_005).                     *)
(***************************************************************************)
EXTENDS Integers, Naturals, Sequences, FiniteSets, TLC

VARIABLES
    cpu,        \* CPU registers and cycle bookkeeping (cpu.hpp)
    ram,        \* Bus::ram, 2 KiB, kept sparse: absent address = 0x00
    ppu,        \* PPU registers, OAM and frame position (bus.hpp, class PPU)
    apu,        \* APU frame sequencer and DMC channel
    bus,        \* Bus: system clock, OAM DMA state, controllers
    cartridge,  \* inserted cartridge: PRG ROM image and bank count
    calls,      \* chip entry points invoked by the latest operation, in order
    hist,       \* observations of the CPU-level run (history variable)
    obs         \* observations of the bus-level run (history variable)

vars == <<cpu, ram, ppu, apu, bus, cartridge, calls, hist, obs>>

----------------------------------------------------------------------------
\* Fixed-width integer helpers

W8(x) == x % 256

W16(x) == x % 65536

Bit(v, k) == (v \div (2 ^ k)) % 2

Hi(w) == (w \div 256) % 256

Lo(w) == w % 256

RECURSIVE BitAnd(_, _)
BitAnd(a, b) ==
    IF a = 0 \/ b = 0 THEN 0
    ELSE ((a % 2) * (b % 2)) + 2 * BitAnd(a \div 2, b \div 2)

RECURSIVE BitOr(_, _)
BitOr(a, b) ==
    IF a = 0 THEN b
    ELSE IF b = 0 THEN a
    ELSE (IF (a % 2) + (b % 2) > 0 THEN 1 ELSE 0) + 2 * BitOr(a \div 2, b \div 2)

RECURSIVE BitXor(_, _)
BitXor(a, b) ==
    IF a = 0 THEN b
    ELSE IF b = 0 THEN a
    ELSE (((a % 2) + (b % 2)) % 2) + 2 * BitXor(a \div 2, b \div 2)

\* the single element of a singleton set: Only({ e : x \in {v} }) is e with
\* x standing for the value v.  Nested bindings follow the order of the
\* statements in the source from the last line of the expression upward.
Only(S) == CHOOSE v \in S : TRUE

\* replace the bit field [lo, lo+width) of reg by val
SetField(reg, lo, width, val) ==
    LET low  == reg % (2 ^ lo)
        high == reg \div (2 ^ (lo + width))
    IN  low + ((val % (2 ^ width)) * (2 ^ lo)) + (high * (2 ^ (lo + width)))

GetField(reg, lo, width) == (reg \div (2 ^ lo)) % (2 ^ width)

----------------------------------------------------------------------------
\* CPU status flags (cpu.hpp, enum Flags)

C == 1

Z == 2

I == 4

D == 8

B == 16

U == 32

V == 64

N == 128

get_flag(P, flag) == (P \div flag) % 2

set_flag(P, flag, value) ==
    IF value
    THEN (IF get_flag(P, flag) = 1 THEN P ELSE P + flag)
    ELSE (IF get_flag(P, flag) = 1 THEN P - flag ELSE P)

----------------------------------------------------------------------------
\* Instruction table: <<operate, addrmode, cycles>> for opcode 0..255

instruction_table ==
  <<
     <<"BRK","IMM",7>>, <<"ORA","IZX",6>>, <<"JAM","IMP",2>>, <<"SLO","IZX",8>>, <<"NOP","ZP0",3>>, <<"ORA","ZP0",3>>, <<"ASL","ZP0",5>>, <<"SLO","ZP0",5>>, <<"PHP","IMP",3>>, <<"ORA","IMM",2>>, <<"ASL","IMP",2>>, <<"ANC","IMM",2>>, <<"NOP","ABS",4>>, <<"ORA","ABS",4>>, <<"ASL","ABS",6>>, <<"SLO","ABS",6>>,
     <<"BPL","REL",2>>, <<"ORA","IZY",5>>, <<"JAM","IMP",2>>, <<"SLO","IZY",8>>, <<"NOP","ZPX",4>>, <<"ORA","ZPX",4>>, <<"ASL","ZPX",6>>, <<"SLO","ZPX",6>>, <<"CLC","IMP",2>>, <<"ORA","ABY",4>>, <<"NOP","IMP",2>>, <<"SLO","ABY",7>>, <<"NOP","ABX",4>>, <<"ORA","ABX",4>>, <<"ASL","ABX",7>>, <<"SLO","ABX",7>>,
     <<"JSR","ABS",6>>, <<"AND","IZX",6>>, <<"JAM","IMP",2>>, <<"RLA","IZX",8>>, <<"BIT","ZP0",3>>, <<"AND","ZP0",3>>, <<"ROL","ZP0",5>>, <<"RLA","ZP0",5>>, <<"PLP","IMP",4>>, <<"AND","IMM",2>>, <<"ROL","IMP",2>>, <<"ANC","IMM",2>>, <<"BIT","ABS",4>>, <<"AND","ABS",4>>, <<"ROL","ABS",6>>, <<"RLA","ABS",6>>,
     <<"BMI","REL",2>>, <<"AND","IZY",5>>, <<"JAM","IMP",2>>, <<"RLA","IZY",8>>, <<"NOP","ZPX",4>>, <<"AND","ZPX",4>>, <<"ROL","ZPX",6>>, <<"RLA","ZPX",6>>, <<"SEC","IMP",2>>, <<"AND","ABY",4>>, <<"NOP","IMP",2>>, <<"RLA","ABY",7>>, <<"NOP","ABX",4>>, <<"AND","ABX",4>>, <<"ROL","ABX",7>>, <<"RLA","ABX",7>>,
     <<"RTI","IMP",6>>, <<"EOR","IZX",6>>, <<"JAM","IMP",2>>, <<"SRE","IZX",8>>, <<"NOP","ZP0",3>>, <<"EOR","ZP0",3>>, <<"LSR","ZP0",5>>, <<"SRE","ZP0",5>>, <<"PHA","IMP",3>>, <<"EOR","IMM",2>>, <<"LSR","IMP",2>>, <<"ALR","IMM",2>>, <<"JMP","ABS",3>>, <<"EOR","ABS",4>>, <<"LSR","ABS",6>>, <<"SRE","ABS",6>>,
     <<"BVC","REL",2>>, <<"EOR","IZY",5>>, <<"JAM","IMP",2>>, <<"SRE","IZY",8>>, <<"NOP","ZPX",4>>, <<"EOR","ZPX",4>>, <<"LSR","ZPX",6>>, <<"SRE","ZPX",6>>, <<"CLI","IMP",2>>, <<"EOR","ABY",4>>, <<"NOP","IMP",2>>, <<"SRE","ABY",7>>, <<"NOP","ABX",4>>, <<"EOR","ABX",4>>, <<"LSR","ABX",7>>, <<"SRE","ABX",7>>,
     <<"RTS","IMP",6>>, <<"ADC","IZX",6>>, <<"JAM","IMP",2>>, <<"RRA","IZX",8>>, <<"NOP","ZP0",3>>, <<"ADC","ZP0",3>>, <<"ROR","ZP0",5>>, <<"RRA","ZP0",5>>, <<"PLA","IMP",4>>, <<"ADC","IMM",2>>, <<"ROR","IMP",2>>, <<"ARR","IMM",2>>, <<"JMP","IND",5>>, <<"ADC","ABS",4>>, <<"ROR","ABS",6>>, <<"RRA","ABS",6>>,
     <<"BVS","REL",2>>, <<"ADC","IZY",5>>, <<"JAM","IMP",2>>, <<"RRA","IZY",8>>, <<"NOP","ZPX",4>>, <<"ADC","ZPX",4>>, <<"ROR","ZPX",6>>, <<"RRA","ZPX",6>>, <<"SEI","IMP",2>>, <<"ADC","ABY",4>>, <<"NOP","IMP",2>>, <<"RRA","ABY",7>>, <<"NOP","ABX",4>>, <<"ADC","ABX",4>>, <<"ROR","ABX",7>>, <<"RRA","ABX",7>>,
     <<"NOP","IMM",2>>, <<"STA","IZX",6>>, <<"NOP","IMM",2>>, <<"SAX","IZX",6>>, <<"STY","ZP0",3>>, <<"STA","ZP0",3>>, <<"STX","ZP0",3>>, <<"SAX","ZP0",3>>, <<"DEY","IMP",2>>, <<"NOP","IMM",2>>, <<"TXA","IMP",2>>, <<"XAA","IMM",2>>, <<"STY","ABS",4>>, <<"STA","ABS",4>>, <<"STX","ABS",4>>, <<"SAX","ABS",4>>,
     <<"BCC","REL",2>>, <<"STA","IZY",6>>, <<"JAM","IMP",2>>, <<"AHX","IZY",6>>, <<"STY","ZPX",4>>, <<"STA","ZPX",4>>, <<"STX","ZPY",4>>, <<"SAX","ZPY",4>>, <<"TYA","IMP",2>>, <<"STA","ABY",5>>, <<"TXS","IMP",2>>, <<"TAS","ABY",5>>, <<"SHY","ABX",5>>, <<"STA","ABX",5>>, <<"SHX","ABY",5>>, <<"AHX","ABY",5>>,
     <<"LDY","IMM",2>>, <<"LDA","IZX",6>>, <<"LDX","IMM",2>>, <<"LAX","IZX",6>>, <<"LDY","ZP0",3>>, <<"LDA","ZP0",3>>, <<"LDX","ZP0",3>>, <<"LAX","ZP0",3>>, <<"TAY","IMP",2>>, <<"LDA","IMM",2>>, <<"TAX","IMP",2>>, <<"LAX","IMM",2>>, <<"LDY","ABS",4>>, <<"LDA","ABS",4>>, <<"LDX","ABS",4>>, <<"LAX","ABS",4>>,
     <<"BCS","REL",2>>, <<"LDA","IZY",5>>, <<"JAM","IMP",2>>, <<"LAX","IZY",5>>, <<"LDY","ZPX",4>>, <<"LDA","ZPX",4>>, <<"LDX","ZPY",4>>, <<"LAX","ZPY",4>>, <<"CLV","IMP",2>>, <<"LDA","ABY",4>>, <<"TSX","IMP",2>>, <<"LAS","ABY",4>>, <<"LDY","ABX",4>>, <<"LDA","ABX",4>>, <<"LDX","ABY",4>>, <<"LAX","ABY",4>>,
     <<"CPY","IMM",2>>, <<"CMP","IZX",6>>, <<"NOP","IMM",2>>, <<"DCP","IZX",8>>, <<"CPY","ZP0",3>>, <<"CMP","ZP0",3>>, <<"DEC","ZP0",5>>, <<"DCP","ZP0",5>>, <<"INY","IMP",2>>, <<"CMP","IMM",2>>, <<"DEX","IMP",2>>, <<"AXS","IMM",2>>, <<"CPY","ABS",4>>, <<"CMP","ABS",4>>, <<"DEC","ABS",6>>, <<"DCP","ABS",6>>,
     <<"BNE","REL",2>>, <<"CMP","IZY",5>>, <<"JAM","IMP",2>>, <<"DCP","IZY",8>>, <<"NOP","ZPX",4>>, <<"CMP","ZPX",4>>, <<"DEC","ZPX",6>>, <<"DCP","ZPX",6>>, <<"CLD","IMP",2>>, <<"CMP","ABY",4>>, <<"NOP","IMP",2>>, <<"DCP","ABY",7>>, <<"NOP","ABX",4>>, <<"CMP","ABX",4>>, <<"DEC","ABX",7>>, <<"DCP","ABX",7>>,
     <<"CPX","IMM",2>>, <<"SBC","IZX",6>>, <<"NOP","IMM",2>>, <<"ISC","IZX",8>>, <<"CPX","ZP0",3>>, <<"SBC","ZP0",3>>, <<"INC","ZP0",5>>, <<"ISC","ZP0",5>>, <<"INX","IMP",2>>, <<"SBC","IMM",2>>, <<"NOP","IMP",2>>, <<"SBC","IMM",2>>, <<"CPX","ABS",4>>, <<"SBC","ABS",4>>, <<"INC","ABS",6>>, <<"ISC","ABS",6>>,
     <<"BEQ","REL",2>>, <<"SBC","IZY",5>>, <<"JAM","IMP",2>>, <<"ISC","IZY",8>>, <<"NOP","ZPX",4>>, <<"SBC","ZPX",4>>, <<"INC","ZPX",6>>, <<"ISC","ZPX",6>>, <<"SED","IMP",2>>, <<"SBC","ABY",4>>, <<"NOP","IMP",2>>, <<"ISC","ABY",7>>, <<"NOP","ABX",4>>, <<"SBC","ABX",4>>, <<"INC","ABX",7>>, <<"ISC","ABX",7>>
  >>

Operate(op) == instruction_table[op + 1][1]

AddrMode(op) == instruction_table[op + 1][2]

BaseCycles(op) == instruction_table[op + 1][3]

----------------------------------------------------------------------------
\* The machine: every operator below maps a machine record
\*   [cpu, ram, ppu, apu, bus, cartridge, calls]
\* to the machine after the corresponding C++ function has run.

Machine ==
    [cpu |-> cpu, ram |-> ram, ppu |-> ppu, apu |-> apu, bus |-> bus,
     cartridge |-> cartridge, calls |-> <<>>]

Logged(entry, m) == [m EXCEPT !.calls = Append(@, entry)]

\* a value returned together with the machine left behind by the call
Ret(data, m) == [data |-> data, m |-> m]

----------------------------------------------------------------------------
\* MMC3 (Mapper004): bank registers and the scanline IRQ counter.  The
\* mapper is a record of the members of the class; arrays are functions on
\* 0..n-1

Arr(seq) == [i \in 0..(Len(seq) - 1) |-> seq[i + 1]]

Mapper004_update_banks(s) ==
    [s EXCEPT
       !.chr_bank =
          IF ~s.chr_inversion
            THEN Arr(<<BitAnd(s.registers[0], 254), BitOr(s.registers[0], 1),
                       BitAnd(s.registers[1], 254), BitOr(s.registers[1], 1),
                       s.registers[2], s.registers[3],
                       s.registers[4], s.registers[5]>>)
            ELSE Arr(<<s.registers[2], s.registers[3],
                       s.registers[4], s.registers[5],
                       BitAnd(s.registers[0], 254), BitOr(s.registers[0], 1),
                       BitAnd(s.registers[1], 254), BitOr(s.registers[1], 1)>>),
       !.prg_bank =
          IF ~s.prg_bank_mode
            THEN Arr(<<s.registers[6], s.registers[7],
                       W8(s.prg_banks * 2 - 2), W8(s.prg_banks * 2 - 1)>>)
            ELSE Arr(<<W8(s.prg_banks * 2 - 2), s.registers[7],
                       s.registers[6], W8(s.prg_banks * 2 - 1)>>)]

Mapper004_reset(prg_banks, chr_banks) ==
    Mapper004_update_banks(
        [prg_banks |-> prg_banks, chr_banks |-> chr_banks,
         prg_ram |-> <<>>,
         target_register |-> 0, prg_bank_mode |-> FALSE,
         chr_inversion |-> FALSE,
         registers |-> [i \in 0..7 |-> 0],
         chr_bank |-> [i \in 0..7 |-> 0],
         prg_bank |-> [i \in 0..3 |-> 0],
         irq_counter |-> 0, irq_latch |-> 0, irq_enable |-> FALSE,
         irq_active |-> FALSE, irq_reload |-> FALSE,
         mirror |-> "HORIZONTAL"])

\* the offset into PRG ROM that a read of $8000-$FFFF resolves to
Mapper004_cpu_read(s, addr) ==
    (s.prg_bank[(addr - 32768) \div 8192] % (s.prg_banks * 2)) * 8192
        + BitAnd(addr, 8191)

Mapper004_cpu_write(s, addr, data) ==
    CASE addr >= 24576 /\ addr <= 32767 ->
           [s EXCEPT !.prg_ram = (BitAnd(addr, 8191) :> data) @@ @]
      [] addr >= 32768 /\ addr <= 40959 ->
           IF addr % 2 = 1
             THEN Mapper004_update_banks(
                      [s EXCEPT !.registers[s.target_register] = data])
             ELSE Mapper004_update_banks(
                      [s EXCEPT !.target_register = BitAnd(data, 7),
                                !.prg_bank_mode = (Bit(data, 6) = 1),
                                !.chr_inversion = (Bit(data, 7) = 1)])
      [] addr >= 40960 /\ addr <= 49151 ->
           IF addr % 2 = 1
             THEN s
             ELSE [s EXCEPT !.mirror = IF Bit(data, 0) = 1
                                         THEN "HORIZONTAL" ELSE "VERTICAL"]
      [] addr >= 49152 /\ addr <= 57343 ->
           IF addr % 2 = 1
             THEN [s EXCEPT !.irq_reload = TRUE]
             ELSE [s EXCEPT !.irq_latch = data]
      [] addr >= 57344 /\ addr <= 65535 ->
           IF addr % 2 = 1
             THEN [s EXCEPT !.irq_enable = TRUE]
             ELSE [s EXCEPT !.irq_enable = FALSE, !.irq_active = FALSE]
      [] OTHER -> s

Mapper004_irq_state(s) == s.irq_active

Mapper004_irq_clear(s) == [s EXCEPT !.irq_active = FALSE]

\* variant: the counter reloads only when it is zero, $C001 is ignored
Mapper004_scanline_noreload(s) ==
    Only({ IF c.irq_counter = 0 /\ c.irq_enable
             THEN [c EXCEPT !.irq_active = TRUE]
             ELSE c :
           c \in { IF s.irq_counter = 0
                     THEN [s EXCEPT !.irq_counter = s.irq_latch,
                                    !.irq_reload = FALSE]
                     ELSE [s EXCEPT !.irq_counter = W8(@ - 1)] } })

Mapper004_scanline(s) ==
    Only({ IF c.irq_counter = 0 /\ c.irq_enable
             THEN [c EXCEPT !.irq_active = TRUE]
             ELSE c :
           c \in { IF s.irq_reload \/ s.irq_counter = 0
                     THEN [s EXCEPT !.irq_counter = s.irq_latch,
                                    !.irq_reload = FALSE]
                     ELSE [s EXCEPT !.irq_counter = W8(@ - 1)] } })

----------------------------------------------------------------------------
\* MMC1 (Mapper001): the serial load register and the four registers it
\* feeds

Mapper001_reset(prg_banks, chr_banks) ==
    [prg_banks |-> prg_banks, chr_banks |-> chr_banks, prg_ram |-> <<>>,
     load_register |-> 0, load_count |-> 0, control_register |-> 28,
     chr_bank_0 |-> 0, chr_bank_1 |-> 0, prg_bank |-> 0,
     mirror |-> "HORIZONTAL"]

\* the offset into PRG ROM that a read of $8000-$FFFF resolves to
Mapper001_cpu_read(s, addr) ==
    LET prg_mode == BitAnd(s.control_register \div 4, 3)
    IN  CASE prg_mode \in {0, 1} ->
               BitAnd(s.prg_bank \div 2, 15) * 32768 + BitAnd(addr, 32767)
          [] prg_mode = 2 ->
               IF addr <= 49151
                 THEN BitAnd(addr, 16383)
                 ELSE BitAnd(s.prg_bank, 15) * 16384 + BitAnd(addr, 16383)
          [] prg_mode = 3 ->
               IF addr <= 49151
                 THEN BitAnd(s.prg_bank, 15) * 16384 + BitAnd(addr, 16383)
                 ELSE (s.prg_banks - 1) * 16384 + BitAnd(addr, 16383)

\* the switch on address bits 13-14 taken by the fifth write
Mapper001_load(s, target) ==
    CASE target = 0 ->
           Only({ [s EXCEPT
                     !.control_register = ctl,
                     !.mirror = CASE BitAnd(ctl, 3) = 0 -> "ONESCREEN_LO"
                                  [] BitAnd(ctl, 3) = 1 -> "ONESCREEN_HI"
                                  [] BitAnd(ctl, 3) = 2 -> "VERTICAL"
                                  [] BitAnd(ctl, 3) = 3 -> "HORIZONTAL"] :
                  ctl \in {BitAnd(s.load_register, 31)} })
      [] target = 1 -> [s EXCEPT !.chr_bank_0 = BitAnd(s.load_register, 31)]
      [] target = 2 -> [s EXCEPT !.chr_bank_1 = BitAnd(s.load_register, 31)]
      [] target = 3 -> [s EXCEPT !.prg_bank = BitAnd(s.load_register, 15)]

Mapper001_cpu_write(s, addr, data) ==
    CASE addr >= 24576 /\ addr <= 32767 ->
           [s EXCEPT !.prg_ram = (BitAnd(addr, 8191) :> data) @@ @]
      [] addr >= 32768 /\ addr <= 65535 ->
           IF Bit(data, 7) = 1
             THEN [s EXCEPT !.load_register = 0, !.load_count = 0,
                            !.control_register = BitOr(@, 12)]
             ELSE Only({ IF c.load_count = 5
                           THEN [Mapper001_load(c, BitAnd(addr \div 8192, 3))
                                   EXCEPT !.load_register = 0,
                                          !.load_count = 0]
                           ELSE c :
                         c \in { [s EXCEPT
                                    !.load_register =
                                        BitOr(@ \div 2, Bit(data, 0) * 16),
                                    !.load_count = W8(@ + 1)] } })
      [] OTHER -> s

----------------------------------------------------------------------------
\* UxROM (Mapper002) and AxROM (Mapper007): one PRG bank select register

Mapper002_reset(prg_banks, chr_banks) ==
    [prg_banks |-> prg_banks, chr_banks |-> chr_banks, prg_bank_select |-> 0]

\* the offset into PRG ROM that a read of $8000-$FFFF resolves to
Mapper002_cpu_read(s, addr) ==
    IF addr <= 49151
      THEN s.prg_bank_select * 16384 + BitAnd(addr, 16383)
      ELSE (s.prg_banks - 1) * 16384 + BitAnd(addr, 16383)

Mapper002_cpu_write(s, addr, data) ==
    IF addr >= 32768 /\ addr <= 65535
      THEN [s EXCEPT !.prg_bank_select = BitAnd(data, 15)]
      ELSE s

Mapper007_reset(prg_banks, chr_banks) ==
    [prg_banks |-> prg_banks, chr_banks |-> chr_banks, prg_bank_select |-> 0,
     mirror |-> "ONESCREEN_LO"]

Mapper007_cpu_read(s, addr) ==
    (s.prg_bank_select % s.prg_banks) * 32768 + BitAnd(addr, 32767)

Mapper007_cpu_write(s, addr, data) ==
    IF addr >= 32768 /\ addr <= 65535
      THEN [s EXCEPT !.prg_bank_select = BitAnd(data, 7),
                     !.mirror = IF Bit(data, 4) = 1
                                  THEN "ONESCREEN_HI" ELSE "ONESCREEN_LO"]
      ELSE s

\* the mapper the cartridge constructs for a mapper id, and the virtual
\* calls on it
Mapper_create(id, prg_banks, chr_banks) ==
    [id |-> id,
     mapper |-> CASE id = 1 -> Mapper001_reset(prg_banks, chr_banks)
                  [] id = 2 -> Mapper002_reset(prg_banks, chr_banks)
                  [] id = 4 -> Mapper004_reset(prg_banks, chr_banks)
                  [] id = 7 -> Mapper007_reset(prg_banks, chr_banks)]

Mapper_cpu_read(c, addr) ==
    CASE c.id = 1 -> Mapper001_cpu_read(c.mapper, addr)
      [] c.id = 2 -> Mapper002_cpu_read(c.mapper, addr)
      [] c.id = 4 -> Mapper004_cpu_read(c.mapper, addr)
      [] c.id = 7 -> Mapper007_cpu_read(c.mapper, addr)

Mapper_cpu_write(c, addr, data) ==
    [c EXCEPT !.mapper =
        CASE c.id = 1 -> Mapper001_cpu_write(c.mapper, addr, data)
          [] c.id = 2 -> Mapper002_cpu_write(c.mapper, addr, data)
          [] c.id = 4 -> Mapper004_cpu_write(c.mapper, addr, data)
          [] c.id = 7 -> Mapper007_cpu_write(c.mapper, addr, data)]

----------------------------------------------------------------------------
\* Cartridge and mapper 000 (NROM)

PrgByte(cart, offset) ==
    IF offset \in DOMAIN cart.prg_rom THEN cart.prg_rom[offset] ELSE cart.fill

Mapper000_cpu_read_handles(addr) == addr >= 32768 /\ addr <= 65535

Mapper000_cpu_read(cart, addr) ==
    LET mapped_addr == IF cart.prg_banks = 1 THEN addr % 16384 ELSE addr % 32768
    IN  PrgByte(cart, mapped_addr)

\* a cartridge with a bank-switching mapper carries it in the field chip
\* ([id, mapper], as Mapper_create makes it); a cartridge without the field
\* has mapper 000
Banked(cart) == "chip" \in DOMAIN cart

\* the addresses for which cpu_read and cpu_write of the mapper return
\* true: MMC1 and MMC3 answer from $6000 on (PRG RAM), UxROM and AxROM
\* from $8000 on
Mapper_handles(c, addr) ==
    IF c.id \in {1, 4} THEN addr >= 24576 /\ addr <= 65535
    ELSE addr >= 32768 /\ addr <= 65535

Cartridge_cpu_read_handles(m, addr) ==
    /\ m.cartridge.present
    /\ IF Banked(m.cartridge) THEN Mapper_handles(m.cartridge.chip, addr)
       ELSE Mapper000_cpu_read_handles(addr)

\* the byte a handled read returns: PRG RAM below $8000, PRG ROM at the
\* offset the mapper resolves above
Cartridge_cpu_read(cart, addr) ==
    IF Banked(cart)
    THEN IF addr < 32768
         THEN IF (addr % 8192) \in DOMAIN cart.chip.mapper.prg_ram
              THEN cart.chip.mapper.prg_ram[addr % 8192] ELSE 0
         ELSE PrgByte(cart, Mapper_cpu_read(cart.chip, addr))
    ELSE Mapper000_cpu_read(cart, addr)

Mapper000_cpu_write_handles(addr) == FALSE

Cartridge_cpu_write_handles(m, addr) ==
    /\ m.cartridge.present
    /\ IF Banked(m.cartridge) THEN Mapper_handles(m.cartridge.chip, addr)
       ELSE Mapper000_cpu_write_handles(addr)

Cartridge_cpu_write(cart, addr, data) ==
    IF Banked(cart)
    THEN [cart EXCEPT !.chip = Mapper_cpu_write(@, addr, data)]
    ELSE cart

\* Mapper::irq_state, irq_clear and scanline: MMC3 alone overrides them
Cartridge_irq_state(m) ==
    /\ m.cartridge.present
    /\ Banked(m.cartridge)
    /\ m.cartridge.chip.id = 4
    /\ Mapper004_irq_state(m.cartridge.chip.mapper)

Cartridge_irq_clear(cart) ==
    IF Banked(cart) /\ cart.chip.id = 4
    THEN [cart EXCEPT !.chip.mapper = Mapper004_irq_clear(@)]
    ELSE cart

Cartridge_scanline(cart) ==
    IF cart.present /\ Banked(cart) /\ cart.chip.id = 4
    THEN [cart EXCEPT !.chip.mapper = Mapper004_scanline(@)]
    ELSE cart

----------------------------------------------------------------------------
\* PPU memory bus (PPU::ppu_read, PPU::ppu_write): pattern tables on the
\* cartridge, 2 KiB of nametable RAM and 32 bytes of palette RAM, the last
\* two kept sparse (absent index = 0x00)

Sparse(mem, k) == IF k \in DOMAIN mem THEN mem[k] ELSE 0

\* CHR ROM of 8 KiB, kept sparse; chr_banks = 0 would make it CHR RAM
Mapper000_ppu_read(cart, addr) == Sparse(cart.chr_rom, addr)

Mapper000_ppu_write(cart, addr, data) ==
    IF cart.chr_banks = 0
    THEN [cart EXCEPT !.chr_rom = (addr :> data) @@ @]
    ELSE cart

\* Mapper::get_mirror: the mapper's own mode, HORIZONTAL for mapper 000
Cartridge_get_mirror(cart) == "HORIZONTAL"

\* index into the nametable RAM of an address already reduced modulo $1000
NametableIndex(mirror, addr) ==
    CASE mirror = "VERTICAL" -> addr % 2048
      [] mirror = "HORIZONTAL" ->
           IF addr < 2048 THEN addr % 1024 ELSE 1024 + (addr % 1024)
      [] mirror = "ONESCREEN_LO" -> addr % 1024
      [] mirror = "ONESCREEN_HI" -> 1024 + (addr % 1024)
      [] OTHER -> addr % 2048

PaletteIndex(addr) ==
    IF (addr % 32) \in {16, 20, 24, 28} THEN (addr % 32) - 16 ELSE addr % 32

PPU_ppu_read(m, addr) ==
    CASE addr % 16384 <= 8191 ->
            IF m.cartridge.present
            THEN Mapper000_ppu_read(m.cartridge, addr % 16384)
            ELSE 0
      [] addr % 16384 >= 8192 /\ addr % 16384 <= 16127 ->
            Sparse(m.ppu.nametable,
                   NametableIndex(Cartridge_get_mirror(m.cartridge), addr % 4096))
      [] addr % 16384 >= 16128 ->
            BitAnd(Sparse(m.ppu.palette, PaletteIndex(addr)),
                   IF Bit(m.ppu.mask, 0) = 1 THEN 48 ELSE 63)

\* PPU::ppu_write storing a palette byte at addr & $1F, without the folding
\* of $10, $14, $18 and $1C
PPU_ppu_write_flat(m, addr, data) ==
    CASE addr % 16384 <= 8191 ->
            IF m.cartridge.present
            THEN [m EXCEPT !.cartridge =
                              Mapper000_ppu_write(@, addr % 16384, data)]
            ELSE m
      [] addr % 16384 >= 8192 /\ addr % 16384 <= 16127 ->
            [m EXCEPT !.ppu.nametable =
                (NametableIndex(Cartridge_get_mirror(m.cartridge), addr % 4096)
                    :> data) @@ @]
      [] addr % 16384 >= 16128 ->
            [m EXCEPT !.ppu.palette = ((addr % 32) :> data) @@ @]

PPU_ppu_write(m, addr, data) ==
    CASE addr % 16384 <= 8191 ->
            IF m.cartridge.present
            THEN [m EXCEPT !.cartridge =
                              Mapper000_ppu_write(@, addr % 16384, data)]
            ELSE m
      [] addr % 16384 >= 8192 /\ addr % 16384 <= 16127 ->
            [m EXCEPT !.ppu.nametable =
                (NametableIndex(Cartridge_get_mirror(m.cartridge), addr % 4096)
                    :> data) @@ @]
      [] addr % 16384 >= 16128 ->
            [m EXCEPT !.ppu.palette = (PaletteIndex(addr) :> data) @@ @]

\* the amount added to vram_addr by an access of $2007
VramStep(p) == IF Bit(p.control, 2) = 1 THEN 32 ELSE 1

----------------------------------------------------------------------------
\* PPU register file as seen by the CPU ($2000-$2007)

StatusReg(p) ==
    (IF p.vblank THEN 128 ELSE 0) + (IF p.sprite_zero_hit THEN 64 ELSE 0)
    + (IF p.sprite_overflow THEN 32 ELSE 0)

\* PPU::cpu_read with the read of $2002 leaving the address latch alone
PPU_cpu_read_keeplatch(m, addr) ==
    LET reg == addr % 8
        p   == m.ppu
    IN  CASE reg = 2 ->
               Ret(BitAnd(StatusReg(p), 224) + (p.data_buffer % 32),
                   [m EXCEPT !.ppu.vblank = FALSE])
          [] reg = 4 -> Ret(p.oam[p.oam_addr], m)
          [] reg \in {0, 1, 3, 5, 6} -> Ret(0, m)
          [] reg = 7 ->
               Ret(IF p.vram_addr >= 16128
                   THEN PPU_ppu_read(m, p.vram_addr) ELSE p.data_buffer,
                   [m EXCEPT !.ppu.data_buffer = PPU_ppu_read(m, p.vram_addr),
                             !.ppu.vram_addr = W16(@ + VramStep(p))])

PPU_cpu_read(m, addr) ==
    LET reg == addr % 8
        p   == m.ppu
    IN  CASE reg = 2 ->
               Ret(BitAnd(StatusReg(p), 224) + (p.data_buffer % 32),
                   [m EXCEPT !.ppu.vblank = FALSE, !.ppu.address_latch = FALSE])
          [] reg = 4 -> Ret(p.oam[p.oam_addr], m)
          [] reg \in {0, 1, 3, 5, 6} -> Ret(0, m)
          [] reg = 7 ->
               Ret(IF p.vram_addr >= 16128
                   THEN PPU_ppu_read(m, p.vram_addr) ELSE p.data_buffer,
                   [m EXCEPT !.ppu.data_buffer = PPU_ppu_read(m, p.vram_addr),
                             !.ppu.vram_addr = W16(@ + VramStep(p))])

PPU_cpu_write(m, addr, data) ==
    LET reg == addr % 8
        p   == m.ppu
    IN  CASE reg = 0 ->
               [m EXCEPT !.ppu.control = data,
                         !.ppu.tram_addr =
                             SetField(SetField(@, 10, 1, Bit(data, 0)), 11, 1, Bit(data, 1))]
          [] reg = 1 -> [m EXCEPT !.ppu.mask = data]
          [] reg = 2 -> m
          [] reg = 3 -> [m EXCEPT !.ppu.oam_addr = data]
          [] reg = 4 ->
               [m EXCEPT !.ppu.oam = [@ EXCEPT ![p.oam_addr] = data],
                         !.ppu.oam_addr = W8(p.oam_addr + 1)]
          [] reg = 5 ->
               IF ~p.address_latch
               THEN [m EXCEPT !.ppu.fine_x = data % 8,
                              !.ppu.tram_addr = SetField(@, 0, 5, data \div 8),
                              !.ppu.address_latch = TRUE]
               ELSE [m EXCEPT !.ppu.tram_addr =
                                  SetField(SetField(@, 12, 3, data % 8), 5, 5, data \div 8),
                              !.ppu.address_latch = FALSE]
          [] reg = 6 ->
               IF ~p.address_latch
               THEN [m EXCEPT !.ppu.tram_addr = ((data % 64) * 256) + (@ % 256),
                              !.ppu.address_latch = TRUE]
               ELSE LET t == ((p.tram_addr \div 256) * 256) + data
                    IN  [m EXCEPT !.ppu.tram_addr = t,
                                  !.ppu.vram_addr = t,
                                  !.ppu.address_latch = FALSE]
          [] reg = 7 ->
               [PPU_ppu_write(m, p.vram_addr, data)
                   EXCEPT !.ppu.vram_addr = W16(@ + VramStep(p))]

----------------------------------------------------------------------------
\* Bus::cpu_read / Bus::cpu_write

RamByte(m, addr) ==
    IF (addr % 2048) \in DOMAIN m.ram THEN m.ram[addr % 2048] ELSE 0

Bus_cpu_read(m, addr) ==
    IF Cartridge_cpu_read_handles(m, addr)
    THEN Ret(Cartridge_cpu_read(m.cartridge, addr), m)
    ELSE CASE addr <= 8191 -> Ret(RamByte(m, addr), m)
           [] addr >= 8192 /\ addr <= 16383 -> PPU_cpu_read(m, addr % 8)
           [] addr \in {16406, 16407} ->
                Ret(IF BitAnd(m.bus.controller_shift[addr - 16405], 128) > 0
                    THEN 1 ELSE 0,
                    [m EXCEPT !.bus.controller_shift[addr - 16405] = W8(@ * 2)])
           [] addr >= 16408 -> Ret(0, m)

Bus_cpu_write(m, addr, data) ==
    IF Cartridge_cpu_write_handles(m, addr)
    THEN [m EXCEPT !.cartridge = Cartridge_cpu_write(@, addr, data)]
    ELSE CASE addr <= 8191 -> [m EXCEPT !.ram = ((addr % 2048) :> data) @@ @]
           [] addr >= 8192 /\ addr <= 16383 -> PPU_cpu_write(m, addr % 8, data)
           [] addr = 16404 ->
                [m EXCEPT !.bus.dma_page = data,
                          !.bus.dma_addr = 0,
                          !.bus.dma_transfer = TRUE]
           [] addr = 16406 ->
                [m EXCEPT !.bus.controller_shift = m.bus.controller_state]
           [] addr >= 16408 -> m

----------------------------------------------------------------------------
\* CPU: memory access, stack and flags (cpu.cpp)

read(m, addr) == Bus_cpu_read(m, addr)

write(m, addr, data) == Bus_cpu_write(m, addr, data)

push(m, data) ==
    LET m1 == write(m, 256 + m.cpu.SP, data)
    IN  Logged([op |-> "push", arg |-> data], [m1 EXCEPT !.cpu.SP = W8(@ + 255)])

pop(m) == read([m EXCEPT !.cpu.SP = W8(@ + 1)], 256 + W8(m.cpu.SP + 1))

push16(m, data) == push(push(m, Hi(data)), Lo(data))

pop16(m) ==
    Only({ Only({ Ret((hi.data * 256) + lo.data, hi.m)
                  : hi \in {pop(lo.m)} })
           : lo \in {pop(m)} })

SetP(m, flag, value) == [m EXCEPT !.cpu.P = set_flag(@, flag, value)]

SetZN(m, v) == SetP(SetP(m, Z, W8(v) = 0), N, Bit(v, 7) = 1)

fetch(m) ==
    IF AddrMode(m.cpu.opcode) # "IMP"
    THEN Only({ [r.m EXCEPT !.cpu.fetched = r.data]
                : r \in {read(m, m.cpu.addr_abs)} })
    ELSE m

----------------------------------------------------------------------------
\* Addressing modes: Ret(1 if a page boundary was crossed else 0, machine)

IncPC(m) == [m EXCEPT !.cpu.PC = W16(@ + 1)]

IMP(m) == Ret(0, [m EXCEPT !.cpu.fetched = m.cpu.A])

IMM(m) == Ret(0, IncPC([m EXCEPT !.cpu.addr_abs = m.cpu.PC]))

ZP0(m) ==
    Only({ Ret(0, IncPC([r.m EXCEPT !.cpu.addr_abs = r.data % 256]))
           : r \in {read(m, m.cpu.PC)} })

ZPX(m) ==
    Only({ Ret(0, IncPC([r.m EXCEPT !.cpu.addr_abs = (r.data + m.cpu.X) % 256]))
           : r \in {read(m, m.cpu.PC)} })

ZPY(m) ==
    Only({ Ret(0, IncPC([r.m EXCEPT !.cpu.addr_abs = (r.data + m.cpu.Y) % 256]))
           : r \in {read(m, m.cpu.PC)} })

REL(m) ==
    Only({ Ret(0, IncPC([r.m EXCEPT !.cpu.addr_rel =
                             IF r.data >= 128 THEN r.data + 65280 ELSE r.data]))
           : r \in {read(m, m.cpu.PC)} })

ABS(m) ==
    Only({ Only({ Ret(0, IncPC([hi.m EXCEPT
                                   !.cpu.addr_abs = (hi.data * 256) + lo.data]))
                  : hi \in {read(IncPC(lo.m), W16(m.cpu.PC + 1))} })
           : lo \in {read(m, m.cpu.PC)} })

AbsIndexed(m, index) ==
    Only({ Only({ LET ea == W16((hi.data * 256) + lo.data + index)
                  IN  Ret(IF Hi(ea) # hi.data THEN 1 ELSE 0,
                          IncPC([hi.m EXCEPT !.cpu.addr_abs = ea]))
                  : hi \in {read(IncPC(lo.m), W16(m.cpu.PC + 1))} })
           : lo \in {read(m, m.cpu.PC)} })

ABX(m) == AbsIndexed(m, m.cpu.X)

ABY(m) == AbsIndexed(m, m.cpu.Y)

\* variant: the high byte of the target is always read from ptr + 1
IND_carry(m) ==
    Only({ Only({ Only({ Only({
        Ret(0, [lo.m EXCEPT !.cpu.addr_abs = (hi.data * 256) + lo.data])
        : lo \in {read(hi.m, (ptr_hi.data * 256) + ptr_lo.data)} })
        : hi \in {read(IncPC(ptr_hi.m),
                       W16((ptr_hi.data * 256) + ptr_lo.data + 1))} })
        : ptr_hi \in {read(IncPC(ptr_lo.m), W16(m.cpu.PC + 1))} })
        : ptr_lo \in {read(m, m.cpu.PC)} })

IND(m) ==
    Only({ Only({ Only({ Only({
        Ret(0, [lo.m EXCEPT !.cpu.addr_abs = (hi.data * 256) + lo.data])
        : lo \in {read(hi.m, (ptr_hi.data * 256) + ptr_lo.data)} })
        : hi \in {read(IncPC(ptr_hi.m),
                       IF ptr_lo.data = 255
                       THEN ptr_hi.data * 256
                       ELSE W16((ptr_hi.data * 256) + ptr_lo.data + 1))} })
        : ptr_hi \in {read(IncPC(ptr_lo.m), W16(m.cpu.PC + 1))} })
        : ptr_lo \in {read(m, m.cpu.PC)} })

IZX(m) ==
    Only({ Only({ Only({
        Ret(0, [hi.m EXCEPT !.cpu.addr_abs = (hi.data * 256) + lo.data])
        : hi \in {read(lo.m, (t.data + m.cpu.X + 1) % 256)} })
        : lo \in {read(IncPC(t.m), (t.data + m.cpu.X) % 256)} })
        : t \in {read(m, m.cpu.PC)} })

IZY(m) ==
    Only({ Only({ Only({
        LET ea == W16((hi.data * 256) + lo.data + m.cpu.Y)
        IN  Ret(IF Hi(ea) # hi.data THEN 1 ELSE 0,
                [hi.m EXCEPT !.cpu.addr_abs = ea])
        : hi \in {read(lo.m, (t.data + 1) % 256)} })
        : lo \in {read(IncPC(t.m), t.data % 256)} })
        : t \in {read(m, m.cpu.PC)} })

addrmode(mode, m) ==
    CASE mode = "IMP" -> IMP(m)
      [] mode = "IMM" -> IMM(m)
      [] mode = "ZP0" -> ZP0(m)
      [] mode = "ZPX" -> ZPX(m)
      [] mode = "ZPY" -> ZPY(m)
      [] mode = "REL" -> REL(m)
      [] mode = "ABS" -> ABS(m)
      [] mode = "ABX" -> ABX(m)
      [] mode = "ABY" -> ABY(m)
      [] mode = "IND" -> IND(m)
      [] mode = "IZX" -> IZX(m)
      [] mode = "IZY" -> IZY(m)

----------------------------------------------------------------------------
\* Operations: Ret(1 if the operation accepts the page-cross cycle else 0,
\* machine)

Branch(m, taken) ==
    IF taken
    THEN LET target == W16(m.cpu.PC + m.cpu.addr_rel)
             extra  == IF Hi(target) # Hi(m.cpu.PC) THEN 2 ELSE 1
         IN  Ret(0, [m EXCEPT !.cpu.cycles_remaining = W8(@ + extra),
                              !.cpu.addr_abs = target,
                              !.cpu.PC = target])
    ELSE Ret(0, m)

BRK(m) ==
    Only({ Only({ Only({ Only({
        Ret(0, [hi.m EXCEPT !.cpu.PC = lo.data + (hi.data * 256)])
        : hi \in {read(lo.m, 65535)} })
        : lo \in {read(SetP(m3, B, FALSE), 65534)} })
        : m3 \in {push(SetP(m2, B, TRUE), set_flag(m2.cpu.P, B, TRUE))} })
        : m2 \in {push16(SetP(IncPC(m), I, TRUE), W16(m.cpu.PC + 1))} })

PHP_pushed(P) == set_flag(set_flag(P, B, TRUE), U, TRUE)

PHP(m) ==
    Ret(0, SetP(SetP(push(m, PHP_pushed(m.cpu.P)), B, FALSE), U, FALSE))

PLP(m) ==
    Only({ Ret(0, SetP([r.m EXCEPT !.cpu.P = r.data], U, TRUE))
           : r \in {pop(m)} })

RTI(m) ==
    Only({ Only({ Ret(0, [pc.m EXCEPT !.cpu.PC = pc.data])
                  : pc \in {pop16(SetP(SetP([r.m EXCEPT !.cpu.P = r.data],
                                            B, FALSE), U, FALSE))} })
           : r \in {pop(m)} })

RTS(m) ==
    Only({ Ret(0, [pc.m EXCEPT !.cpu.PC = W16(pc.data + 1)])
           : pc \in {pop16(m)} })

JSR(m) ==
    Ret(0, [push16([m EXCEPT !.cpu.PC = W16(@ + 65535)], W16(m.cpu.PC + 65535))
               EXCEPT !.cpu.PC = m.cpu.addr_abs])

JMP(m) == Ret(0, [m EXCEPT !.cpu.PC = m.cpu.addr_abs])

PHA(m) == Ret(0, push(m, m.cpu.A))

PLA(m) ==
    Only({ Ret(0, SetZN([r.m EXCEPT !.cpu.A = r.data], r.data))
           : r \in {pop(m)} })

\* CLC, CLD, CLI, CLV, SEC, SED, SEI
FlagOp(m, flag, value) == Ret(0, SetP(m, flag, value))

NOP(m) ==
    Ret(IF m.cpu.opcode \in {28, 60, 92, 124, 220, 252} THEN 1 ELSE 0, m)

\* variant: JAM leaves PC behind the opcode
JAM_through(m) == Ret(0, m)

JAM(m) == Ret(0, [m EXCEPT !.cpu.PC = W16(@ + 65535)])

LDA(m) ==
    Only({ Ret(1, SetZN([m1 EXCEPT !.cpu.A = m1.cpu.fetched], m1.cpu.fetched))
           : m1 \in {fetch(m)} })

LDX(m) ==
    Only({ Ret(1, SetZN([m1 EXCEPT !.cpu.X = m1.cpu.fetched], m1.cpu.fetched))
           : m1 \in {fetch(m)} })

LDY(m) ==
    Only({ Ret(1, SetZN([m1 EXCEPT !.cpu.Y = m1.cpu.fetched], m1.cpu.fetched))
           : m1 \in {fetch(m)} })

STA(m) == Ret(0, write(m, m.cpu.addr_abs, m.cpu.A))

STX(m) == Ret(0, write(m, m.cpu.addr_abs, m.cpu.X))

STY(m) == Ret(0, write(m, m.cpu.addr_abs, m.cpu.Y))

\* TAX, TAY, TSX, TXA, TXS, TYA
Transfer(name, m) ==
    CASE name = "TAX" -> Ret(0, SetZN([m EXCEPT !.cpu.X = m.cpu.A], m.cpu.A))
      [] name = "TAY" -> Ret(0, SetZN([m EXCEPT !.cpu.Y = m.cpu.A], m.cpu.A))
      [] name = "TSX" -> Ret(0, SetZN([m EXCEPT !.cpu.X = m.cpu.SP], m.cpu.SP))
      [] name = "TXA" -> Ret(0, SetZN([m EXCEPT !.cpu.A = m.cpu.X], m.cpu.X))
      [] name = "TXS" -> Ret(0, [m EXCEPT !.cpu.SP = m.cpu.X])
      [] name = "TYA" -> Ret(0, SetZN([m EXCEPT !.cpu.A = m.cpu.Y], m.cpu.Y))

\* INX, INY, DEX, DEY
StepIndex(name, m) ==
    CASE name = "INX" -> Ret(0, SetZN([m EXCEPT !.cpu.X = W8(@ + 1)], W8(m.cpu.X + 1)))
      [] name = "INY" -> Ret(0, SetZN([m EXCEPT !.cpu.Y = W8(@ + 1)], W8(m.cpu.Y + 1)))
      [] name = "DEX" -> Ret(0, SetZN([m EXCEPT !.cpu.X = W8(@ + 255)], W8(m.cpu.X + 255)))
      [] name = "DEY" -> Ret(0, SetZN([m EXCEPT !.cpu.Y = W8(@ + 255)], W8(m.cpu.Y + 255)))

\* the addition with the overflow test missing its complement: V is taken
\* from operands of different signs
AddWithCarry_signed(m, operand) ==
    LET temp == m.cpu.A + operand + get_flag(m.cpu.P, C)
        v    == BitAnd(BitAnd(BitXor(m.cpu.A, operand), BitXor(m.cpu.A, temp)), 128)
    IN  [SetP(SetP(SetP(SetP(m, C, temp > 255), Z, temp % 256 = 0), V, v # 0),
              N, Bit(temp, 7) = 1)
            EXCEPT !.cpu.A = temp % 256]

AddWithCarry(m, operand) ==
    LET temp == m.cpu.A + operand + get_flag(m.cpu.P, C)
        v    == BitAnd(BitAnd(BitXor(BitXor(m.cpu.A, operand), 65535),
                              BitXor(m.cpu.A, temp)), 128)
    IN  [SetP(SetP(SetP(SetP(m, C, temp > 255), Z, temp % 256 = 0), V, v # 0),
              N, Bit(temp, 7) = 1)
            EXCEPT !.cpu.A = temp % 256]

ADC(m) ==
    Only({ Ret(1, AddWithCarry(m1, m1.cpu.fetched)) : m1 \in {fetch(m)} })

SBC(m) ==
    Only({ LET value == BitXor(m1.cpu.fetched, 255)
               temp  == m1.cpu.A + value + get_flag(m1.cpu.P, C)
               v     == BitAnd(BitAnd(BitXor(temp, m1.cpu.A), BitXor(temp, value)), 128)
           IN  Ret(1, [SetP(SetP(SetP(SetP(m1, C, temp >= 256), Z, temp % 256 = 0),
                                 V, v # 0), N, Bit(temp, 7) = 1)
                          EXCEPT !.cpu.A = temp % 256])
           : m1 \in {fetch(m)} })

AND(m) ==
    Only({ LET r == BitAnd(m1.cpu.A, m1.cpu.fetched)
           IN  Ret(1, SetZN([m1 EXCEPT !.cpu.A = r], r))
           : m1 \in {fetch(m)} })

ORA(m) ==
    Only({ LET r == BitOr(m1.cpu.A, m1.cpu.fetched)
           IN  Ret(1, SetZN([m1 EXCEPT !.cpu.A = r], r))
           : m1 \in {fetch(m)} })

EOR(m) ==
    Only({ LET r == BitXor(m1.cpu.A, m1.cpu.fetched)
           IN  Ret(1, SetZN([m1 EXCEPT !.cpu.A = r], r))
           : m1 \in {fetch(m)} })

Compare(m, reg, extra) ==
    Only({ Ret(extra, SetZN(SetP(m1, C, reg >= m1.cpu.fetched),
                            W16(reg + 65536 - m1.cpu.fetched)))
           : m1 \in {fetch(m)} })

CMP(m) == Compare(m, m.cpu.A, 1)

CPX(m) == Compare(m, m.cpu.X, 0)

CPY(m) == Compare(m, m.cpu.Y, 0)

BIT(m) ==
    Only({ Ret(0, SetP(SetP(SetP(m1, Z, BitAnd(m1.cpu.A, m1.cpu.fetched) = 0),
                            N, Bit(m1.cpu.fetched, 7) = 1),
                       V, Bit(m1.cpu.fetched, 6) = 1))
           : m1 \in {fetch(m)} })

INC(m) ==
    Only({ Ret(0, SetZN(write(m1, m1.cpu.addr_abs, W8(m1.cpu.fetched + 1)),
                        W8(m1.cpu.fetched + 1)))
           : m1 \in {fetch(m)} })

DEC(m) ==
    Only({ Ret(0, SetZN(write(m1, m1.cpu.addr_abs, W8(m1.cpu.fetched + 255)),
                        W8(m1.cpu.fetched + 255)))
           : m1 \in {fetch(m)} })

\* store the result of a shift or rotate in A (implied mode) or in memory
ShiftStore(m, temp) ==
    IF AddrMode(m.cpu.opcode) = "IMP"
    THEN [m EXCEPT !.cpu.A = W8(temp)]
    ELSE write(m, m.cpu.addr_abs, W8(temp))

ASL(m) ==
    Only({ LET temp == m1.cpu.fetched * 2
           IN  Ret(0, ShiftStore(SetZN(SetP(m1, C, temp > 255), temp), temp))
           : m1 \in {fetch(m)} })

LSR(m) ==
    Only({ LET temp == m1.cpu.fetched \div 2
           IN  Ret(0, ShiftStore(SetZN(SetP(m1, C, m1.cpu.fetched % 2 = 1), temp), temp))
           : m1 \in {fetch(m)} })

ROL(m) ==
    Only({ LET temp == (m1.cpu.fetched * 2) + get_flag(m1.cpu.P, C)
           IN  Ret(0, ShiftStore(SetZN(SetP(m1, C, temp > 255), temp), temp))
           : m1 \in {fetch(m)} })

ROR(m) ==
    Only({ LET temp == (get_flag(m1.cpu.P, C) * 128) + (m1.cpu.fetched \div 2)
           IN  Ret(0, ShiftStore(SetZN(SetP(m1, C, m1.cpu.fetched % 2 = 1), temp), temp))
           : m1 \in {fetch(m)} })

\* the condition under which each branch instruction is taken
BranchTaken(name, P) ==
    CASE name = "BCC" -> get_flag(P, C) = 0
      [] name = "BCS" -> get_flag(P, C) = 1
      [] name = "BEQ" -> get_flag(P, Z) = 1
      [] name = "BNE" -> get_flag(P, Z) = 0
      [] name = "BMI" -> get_flag(P, N) = 1
      [] name = "BPL" -> get_flag(P, N) = 0
      [] name = "BVC" -> get_flag(P, V) = 0
      [] name = "BVS" -> get_flag(P, V) = 1

operate(name, m) ==
    CASE name \in {"BCC", "BCS", "BEQ", "BNE", "BMI", "BPL", "BVC", "BVS"} ->
            Branch(m, BranchTaken(name, m.cpu.P))
      [] name \in {"TAX", "TAY", "TSX", "TXA", "TXS", "TYA"} -> Transfer(name, m)
      [] name \in {"INX", "INY", "DEX", "DEY"} -> StepIndex(name, m)
      [] name = "CLC" -> FlagOp(m, C, FALSE) [] name = "SEC" -> FlagOp(m, C, TRUE)
      [] name = "CLD" -> FlagOp(m, D, FALSE) [] name = "SED" -> FlagOp(m, D, TRUE)
      [] name = "CLI" -> FlagOp(m, I, FALSE) [] name = "SEI" -> FlagOp(m, I, TRUE)
      [] name = "CLV" -> FlagOp(m, V, FALSE)
      [] name = "ADC" -> ADC(m) [] name = "AND" -> AND(m) [] name = "ASL" -> ASL(m)
      [] name = "BIT" -> BIT(m) [] name = "BRK" -> BRK(m) [] name = "CMP" -> CMP(m)
      [] name = "CPX" -> CPX(m) [] name = "CPY" -> CPY(m) [] name = "DEC" -> DEC(m)
      [] name = "EOR" -> EOR(m) [] name = "INC" -> INC(m) [] name = "JMP" -> JMP(m)
      [] name = "JSR" -> JSR(m) [] name = "LDA" -> LDA(m) [] name = "LDX" -> LDX(m)
      [] name = "LDY" -> LDY(m) [] name = "LSR" -> LSR(m) [] name = "NOP" -> NOP(m)
      [] name = "ORA" -> ORA(m) [] name = "PHA" -> PHA(m) [] name = "PHP" -> PHP(m)
      [] name = "PLA" -> PLA(m) [] name = "PLP" -> PLP(m) [] name = "ROL" -> ROL(m)
      [] name = "ROR" -> ROR(m) [] name = "RTI" -> RTI(m) [] name = "RTS" -> RTS(m)
      [] name = "SBC" -> SBC(m) [] name = "STA" -> STA(m) [] name = "STX" -> STX(m)
      [] name = "STY" -> STY(m) [] name = "JAM" -> JAM(m)

----------------------------------------------------------------------------
\* CPU entry points

\* variant: reset ORs U and I into the old status instead of assigning it
CPU_reset_or(m) ==
    Only({ Only({ [hi.m EXCEPT !.cpu.PC = (hi.data * 256) + lo.data,
                               !.cpu.A = 0, !.cpu.X = 0, !.cpu.Y = 0,
                               !.cpu.SP = 253,
                               !.cpu.P = BitOr(@, BitOr(U, I)),
                               !.cpu.addr_abs = 0, !.cpu.addr_rel = 0,
                               !.cpu.fetched = 0,
                               !.cpu.cycles_remaining = 8]
                  : hi \in {read(lo.m, 65533)} })
           : lo \in {read(m, 65532)} })

CPU_reset(m) ==
    Only({ Only({ [hi.m EXCEPT !.cpu.PC = (hi.data * 256) + lo.data,
                               !.cpu.A = 0, !.cpu.X = 0, !.cpu.Y = 0,
                               !.cpu.SP = 253,
                               !.cpu.P = BitOr(U, I),
                               !.cpu.addr_abs = 0, !.cpu.addr_rel = 0,
                               !.cpu.fetched = 0,
                               !.cpu.cycles_remaining = 8]
                  : hi \in {read(lo.m, 65533)} })
           : lo \in {read(m, 65532)} })

\* opcode fetch, addressing-mode phase and execution phase of CPU::clock
CPU_decode(m) ==
    Only({ Only({ Only({
        [op |-> op.data, am |-> am, ex |-> ex]
        : ex \in {operate(Operate(op.data), am.m)} })
        : am \in {addrmode(AddrMode(op.data),
                           [Logged([op |-> "fetch", arg |-> m.cpu.PC],
                                   IncPC(SetP([op.m EXCEPT !.cpu.opcode = op.data],
                                              U, TRUE)))
                               EXCEPT !.cpu.cycles_remaining = BaseCycles(op.data)])} })
        : op \in {read(m, m.cpu.PC)} })

\* variant: the page-cross penalty is charged when either phase asks for it
CPU_execute_or(m) ==
    Only({ SetP([d.ex.m EXCEPT !.cpu.cycles_remaining =
                                   W8(@ + BitOr(d.am.data, d.ex.data))], U, TRUE)
           : d \in {CPU_decode(m)} })

CPU_execute(m) ==
    Only({ SetP([d.ex.m EXCEPT !.cpu.cycles_remaining =
                                   W8(@ + BitAnd(d.am.data, d.ex.data))], U, TRUE)
           : d \in {CPU_decode(m)} })

\* variant: the unused flag is not forced after the instruction has run
CPU_clock_noU(m) ==
    [(IF m.cpu.cycles_remaining = 0
      THEN Only({ [d.ex.m EXCEPT !.cpu.cycles_remaining =
                                     W8(@ + BitAnd(d.am.data, d.ex.data))]
                  : d \in {CPU_decode(m)} })
      ELSE m)
        EXCEPT !.cpu.cycles_remaining = W8(@ + 255),
               !.cpu.total_cycles = @ + 1]

CPU_clock(m) ==
    [(IF m.cpu.cycles_remaining = 0 THEN CPU_execute(m) ELSE m)
        EXCEPT !.cpu.cycles_remaining = W8(@ + 255),
               !.cpu.total_cycles = @ + 1]

InterruptEntry(m, vector, cycles) ==
    Only({ Only({ Only({
        [hi.m EXCEPT !.cpu.PC = (hi.data * 256) + lo.data,
                     !.cpu.cycles_remaining = cycles]
        : hi \in {read(lo.m, vector + 1)} })
        : lo \in {read(push(m2, m2.cpu.P), vector)} })
        : m2 \in {SetP(SetP(SetP(push16(m, m.cpu.PC), B, FALSE), U, TRUE), I, TRUE)} })

CPU_irq(m) ==
    IF get_flag(m.cpu.P, I) = 0 THEN InterruptEntry(m, 65534, 7) ELSE m

CPU_nmi(m) == InterruptEntry(m, 65530, 8)

----------------------------------------------------------------------------
\* PPU frame timing (PPU::reset, PPU::clock)

OamFill == [k \in 0..255 |-> 255]

\* the secondary OAM with no sprite in it.  sprite_scanline is kept as
\* sprite evaluation leaves it; the X countdown of render_pixel is not
\* applied to it
SlotFill == [i \in 0..7 |-> [y |-> 255, id |-> 255, attribute |-> 255, x |-> 255]]

PPU_reset(m) ==
    [m EXCEPT !.ppu =
        [control |-> 0, mask |-> 0,
         vblank |-> FALSE, sprite_zero_hit |-> FALSE, sprite_overflow |-> FALSE,
         oam_addr |-> 0, data_buffer |-> 0,
         vram_addr |-> 0, tram_addr |-> 0, fine_x |-> 0, address_latch |-> FALSE,
         scanline |-> 0, cycle |-> 0, frame_count |-> 0, frame_ready |-> FALSE,
         sprite_count |-> 0, sprite_zero_hit_possible |-> FALSE,
         oam |-> OamFill, sprite_scanline |-> SlotFill,
         nametable |-> <<>>, palette |-> <<>>,
         nmi |-> m.ppu.nmi]]

RenderingEnabled(p) == Bit(p.mask, 3) = 1 \/ Bit(p.mask, 4) = 1

increment_scroll_x(p) ==
    IF RenderingEnabled(p)
    THEN IF GetField(p.vram_addr, 0, 5) = 31
         THEN [p EXCEPT !.vram_addr =
                  SetField(SetField(@, 0, 5, 0), 10, 1, 1 - GetField(@, 10, 1))]
         ELSE [p EXCEPT !.vram_addr = SetField(@, 0, 5, GetField(@, 0, 5) + 1)]
    ELSE p

increment_scroll_y(p) ==
    IF RenderingEnabled(p)
    THEN IF GetField(p.vram_addr, 12, 3) < 7
         THEN [p EXCEPT !.vram_addr = SetField(@, 12, 3, GetField(@, 12, 3) + 1)]
         ELSE Only({ IF GetField(v0, 5, 5) = 29
                     THEN [p EXCEPT !.vram_addr =
                              SetField(SetField(v0, 5, 5, 0), 11, 1,
                                       1 - GetField(v0, 11, 1))]
                     ELSE IF GetField(v0, 5, 5) = 31
                     THEN [p EXCEPT !.vram_addr = SetField(v0, 5, 5, 0)]
                     ELSE [p EXCEPT !.vram_addr =
                              SetField(v0, 5, 5, GetField(v0, 5, 5) + 1)]
                     : v0 \in {SetField(p.vram_addr, 12, 3, 0)} })
    ELSE p

transfer_address_x(p) ==
    IF RenderingEnabled(p)
    THEN [p EXCEPT !.vram_addr =
             SetField(SetField(@, 10, 1, GetField(p.tram_addr, 10, 1)),
                      0, 5, GetField(p.tram_addr, 0, 5))]
    ELSE p

transfer_address_y(p) ==
    IF RenderingEnabled(p)
    THEN [p EXCEPT !.vram_addr =
             SetField(SetField(SetField(@, 12, 3, GetField(p.tram_addr, 12, 3)),
                               11, 1, GetField(p.tram_addr, 11, 1)),
                      5, 5, GetField(p.tram_addr, 5, 5))]
    ELSE p

\* OAM entries whose Y puts them on the scanline being evaluated
\* the OAM entries in range of the scanline, stated directly
SpritesInRange(p) ==
    LET height == IF Bit(p.control, 5) = 1 THEN 16 ELSE 8
    IN  {e \in 0..63 : p.scanline - p.oam[4 * e] >= 0
                       /\ p.scanline - p.oam[4 * e] < height}

OamEntry(p, e) ==
    [y |-> p.oam[4 * e], id |-> p.oam[4 * e + 1],
     attribute |-> p.oam[4 * e + 2], x |-> p.oam[4 * e + 3]]

\* the loop over the 64 OAM entries: st holds sprites_found, the secondary
\* OAM and sprite_zero_hit_possible; the loop is left after the ninth find
RECURSIVE EvalLoop(_, _, _)
EvalLoop(p, oam_entry, st) ==
    IF oam_entry = 64 \/ st.found > 8 THEN st
    ELSE IF p.scanline - p.oam[4 * oam_entry] >= 0
            /\ p.scanline - p.oam[4 * oam_entry]
                  < (IF Bit(p.control, 5) = 1 THEN 16 ELSE 8)
      THEN EvalLoop(p, oam_entry + 1,
                    IF st.found < 8
                      THEN [found |-> st.found + 1,
                            slots |-> [st.slots EXCEPT
                                          ![st.found] = OamEntry(p, oam_entry)],
                            zero |-> st.zero \/ oam_entry = 0]
                      ELSE [st EXCEPT !.found = @ + 1])
    ELSE EvalLoop(p, oam_entry + 1, st)

\* variant: the overflow flag is set by the eighth sprite in range
sprite_evaluation_eighth(p) ==
    Only({ [p EXCEPT !.sprite_zero_hit_possible = st.zero,
                     !.sprite_scanline = st.slots,
                     !.sprite_overflow = (st.found > 7),
                     !.sprite_count = IF st.found > 8 THEN 8 ELSE st.found]
           : st \in {EvalLoop(p, 0, [found |-> 0, slots |-> SlotFill,
                                     zero |-> FALSE])} })

sprite_evaluation(p) ==
    Only({ [p EXCEPT !.sprite_zero_hit_possible = st.zero,
                     !.sprite_scanline = st.slots,
                     !.sprite_overflow = (st.found > 8),
                     !.sprite_count = IF st.found > 8 THEN 8 ELSE st.found]
           : st \in {EvalLoop(p, 0, [found |-> 0, slots |-> SlotFill,
                                     zero |-> FALSE])} })

PPU_visible(p) ==
    Only({ Only({ Only({ Only({ Only({
        IF p5.scanline = -1 /\ p5.cycle >= 280 /\ p5.cycle < 305
        THEN transfer_address_y(p5) ELSE p5
        : p5 \in {IF p4.cycle = 257 /\ p4.scanline >= 0
                  THEN sprite_evaluation(p4) ELSE p4} })
        : p4 \in {IF p3.cycle = 257 THEN transfer_address_x(p3) ELSE p3} })
        : p3 \in {IF p2.cycle = 256 THEN increment_scroll_y(p2) ELSE p2} })
        : p2 \in {IF ((p1.cycle >= 2 /\ p1.cycle < 258)
                      \/ (p1.cycle >= 321 /\ p1.cycle < 338))
                     /\ (p1.cycle - 1) % 8 = 7
                  THEN increment_scroll_x(p1) ELSE p1} })
        : p1 \in {IF p.scanline = -1 /\ p.cycle = 0 /\ p.frame_count % 2 = 1
                     /\ RenderingEnabled(p)
                  THEN [p EXCEPT !.cycle = 1] ELSE p} })

\* variant: the vertical blank is entered at cycle 1 of every scanline
PPU_vblank_anyline(p) ==
    IF p.cycle = 1
    THEN [p EXCEPT !.vblank = TRUE,
                   !.nmi = IF Bit(p.control, 7) = 1 THEN TRUE ELSE @]
    ELSE p

PPU_vblank(p) ==
    IF p.scanline = 241 /\ p.cycle = 1
    THEN [p EXCEPT !.vblank = TRUE,
                   !.nmi = IF Bit(p.control, 7) = 1 THEN TRUE ELSE @]
    ELSE p

PPU_prerender(p) ==
    IF p.scanline = -1 /\ p.cycle = 1
    THEN [p EXCEPT !.vblank = FALSE, !.sprite_zero_hit = FALSE,
                   !.sprite_overflow = FALSE]
    ELSE p

\* variant: the scanline counter wraps one line late
PPU_advance_late(p) ==
    IF p.cycle + 1 >= 341
    THEN IF p.scanline + 1 >= 262
         THEN [p EXCEPT !.cycle = 0, !.scanline = -1, !.frame_ready = TRUE,
                        !.frame_count = @ + 1]
         ELSE [p EXCEPT !.cycle = 0, !.scanline = @ + 1]
    ELSE [p EXCEPT !.cycle = @ + 1]

PPU_advance(p) ==
    IF p.cycle + 1 >= 341
    THEN IF p.scanline + 1 >= 261
         THEN [p EXCEPT !.cycle = 0, !.scanline = -1, !.frame_ready = TRUE,
                        !.frame_count = @ + 1]
         ELSE [p EXCEPT !.cycle = 0, !.scanline = @ + 1]
    ELSE [p EXCEPT !.cycle = @ + 1]

\* variant: the completion flag is reported but not cleared
PPU_frame_complete_sticky(m) == Ret(m.ppu.frame_ready, m)

PPU_frame_complete(m) ==
    Ret(m.ppu.frame_ready, [m EXCEPT !.ppu.frame_ready = FALSE])

\* the scanline pulse for the mapper: cycle 260 of a visible scanline with
\* rendering enabled
ScanlinePulse(p) ==
    /\ p.cycle = 260
    /\ RenderingEnabled(p)
    /\ p.scanline >= 0 /\ p.scanline < 240

PPU_clock(m) ==
    [m EXCEPT !.ppu =
        PPU_advance(PPU_prerender(PPU_vblank(
            IF m.ppu.scanline >= -1 /\ m.ppu.scanline < 240
            THEN PPU_visible(m.ppu) ELSE m.ppu))),
              !.cartridge =
        IF ScanlinePulse(m.ppu) THEN Cartridge_scanline(@) ELSE @]

----------------------------------------------------------------------------
\* APU (APU::reset, APU::clock, APU::cpu_write): the frame sequencer and
\* the DMC channel.  The pulse, triangle and noise channels are not part of
\* the machine; the quarter-frame and half-frame clocks that drive them
\* are entries of the call log

dmc_rate_table ==
    <<428, 380, 340, 320, 286, 254, 226, 214, 190, 160, 142, 128, 106, 84, 72, 54>>

\* dmc = {} : every member zero, the read callback a null pointer
DmcZero ==
    [enabled |-> FALSE, irq_enabled |-> FALSE, loop |-> FALSE, rate |-> 0,
     output_level |-> 0, sample_address |-> 0, sample_length |-> 0,
     current_address |-> 0, bytes_remaining |-> 0,
     sample_buffer |-> 0, sample_buffer_empty |-> FALSE,
     shift_register |-> 0, bits_remaining |-> 0, silence |-> FALSE,
     timer_period |-> 0, timer_counter |-> 0, read_callback |-> FALSE]

APU_reset(m) ==
    [m EXCEPT !.apu = [frame_counter_mode |-> FALSE, irq_inhibit |-> FALSE,
                       cycles |-> 0,
                       dmc |-> [DmcZero EXCEPT !.sample_buffer_empty = TRUE]]]

APU_set_dmc_read_callback(m) == [m EXCEPT !.apu.dmc.read_callback = TRUE]

DMC_start_sample(d) ==
    [d EXCEPT !.current_address = d.sample_address,
              !.bytes_remaining = d.sample_length]

\* the cycle counts at which the sequencer of a mode ends its pass
FrameTerminal(mode) == IF mode THEN {18640, 18641} ELSE {14914, 14915}

FrameQuarter(mode, c) ==
    c \in {3728, 3729, 7456, 7457, 11185, 11186} \cup FrameTerminal(mode)

FrameHalf(mode, c) == c \in {7456, 7457} \cup FrameTerminal(mode)

APU_clock_quarter_frame(m, c) ==
    Logged([op |-> "apu.quarter_frame", arg |-> c], m)

APU_clock_half_frame(m, c) ==
    Logged([op |-> "apu.half_frame", arg |-> c], m)

\* the sample byte is consumed and the next one fetched through the callback
DMC_load(m) ==
    IF m.apu.dmc.bytes_remaining > 0
      THEN Only({ [m1 EXCEPT !.apu.dmc =
                     Only({ IF d.bytes_remaining = 0 /\ d.loop
                              THEN DMC_start_sample(d) ELSE d :
                            d \in { [m1.apu.dmc EXCEPT
                                       !.current_address =
                                           IF @ = 65535 THEN 32768 ELSE @ + 1,
                                       !.bytes_remaining = @ - 1] } })] :
                  m1 \in { IF m.apu.dmc.read_callback
                             THEN Only({ Logged([op |-> "dmc.read",
                                                 arg |-> m.apu.dmc.current_address],
                                                [r.m EXCEPT
                                                   !.apu.dmc.sample_buffer = r.data,
                                                   !.apu.dmc.sample_buffer_empty = FALSE]) :
                                         r \in {Bus_cpu_read(m, m.apu.dmc.current_address)} })
                             ELSE m } })
      ELSE m

DMC_output(d) ==
    IF d.silence THEN d.output_level
    ELSE IF Bit(d.shift_register, 0) = 1
      THEN (IF d.output_level <= 125 THEN d.output_level + 2 ELSE d.output_level)
      ELSE (IF d.output_level >= 2 THEN d.output_level - 2 ELSE d.output_level)

DMC_clock_timer(m) ==
    IF m.apu.dmc.timer_counter = 0
      THEN Only({ IF m1.apu.dmc.bits_remaining # 0 THEN m1
                  ELSE IF m1.apu.dmc.sample_buffer_empty
                    THEN [m1 EXCEPT !.apu.dmc.bits_remaining = 8,
                                    !.apu.dmc.silence = TRUE]
                  ELSE DMC_load([m1 EXCEPT
                                   !.apu.dmc.bits_remaining = 8,
                                   !.apu.dmc.silence = FALSE,
                                   !.apu.dmc.shift_register =
                                       m1.apu.dmc.sample_buffer,
                                   !.apu.dmc.sample_buffer_empty = TRUE]) :
                  m1 \in { [m EXCEPT
                              !.apu.dmc.timer_counter = m.apu.dmc.timer_period,
                              !.apu.dmc.output_level = DMC_output(m.apu.dmc),
                              !.apu.dmc.shift_register = @ \div 2,
                              !.apu.dmc.bits_remaining = W8(@ - 1)] } })
      ELSE [m EXCEPT !.apu.dmc.timer_counter = @ - 1]

APU_clock(m) ==
    Only({ [DMC_clock_timer(
               IF FrameHalf(m.apu.frame_counter_mode, c)
                 THEN APU_clock_half_frame(
                          APU_clock_quarter_frame(
                              [m EXCEPT !.apu.cycles =
                                  IF c \in FrameTerminal(m.apu.frame_counter_mode)
                                    THEN 0 ELSE @],
                              c), c)
               ELSE IF FrameQuarter(m.apu.frame_counter_mode, c)
                 THEN APU_clock_quarter_frame(m, c)
               ELSE m)
              EXCEPT !.apu.cycles = @ + 1] :
           c \in {m.apu.cycles} })

\* the DMC, status and frame counter registers
APU_cpu_write(m, addr, data) ==
    CASE addr = 16400 ->
           [m EXCEPT !.apu.dmc.irq_enabled = (Bit(data, 7) = 1),
                     !.apu.dmc.loop = (Bit(data, 6) = 1),
                     !.apu.dmc.rate = BitAnd(data, 15),
                     !.apu.dmc.timer_period = dmc_rate_table[BitAnd(data, 15) + 1]]
      [] addr = 16401 -> [m EXCEPT !.apu.dmc.output_level = BitAnd(data, 127)]
      [] addr = 16402 -> [m EXCEPT !.apu.dmc.sample_address = W16(49152 + data * 64)]
      [] addr = 16403 -> [m EXCEPT !.apu.dmc.sample_length = W16(data * 16 + 1)]
      [] addr = 16405 ->
           IF Bit(data, 4) = 0
             THEN [m EXCEPT !.apu.dmc.enabled = FALSE,
                            !.apu.dmc.bytes_remaining = 0]
           ELSE IF m.apu.dmc.bytes_remaining = 0
             THEN [m EXCEPT !.apu.dmc =
                              DMC_start_sample([@ EXCEPT !.enabled = TRUE])]
           ELSE [m EXCEPT !.apu.dmc.enabled = TRUE]
      [] addr = 16407 ->
           Only({ IF m1.apu.frame_counter_mode
                    THEN APU_clock_half_frame(
                             APU_clock_quarter_frame(m1, m1.apu.cycles),
                             m1.apu.cycles)
                    ELSE m1 :
                  m1 \in { [m EXCEPT
                              !.apu.frame_counter_mode = (Bit(data, 7) = 1),
                              !.apu.irq_inhibit = (Bit(data, 6) = 1)] } })
      [] OTHER -> m

----------------------------------------------------------------------------
\* Bus::reset and Bus::clock

Call(name, arg) == [op |-> name, arg |-> arg]

Bus_reset(m) ==
    [Logged(Call("apu.reset", 0),
            APU_reset(Logged(Call("ppu.reset", 0),
                             PPU_reset(Logged(Call("cpu.reset", 0), CPU_reset(m))))))
        EXCEPT !.bus.system_clock_counter = 0,
               !.bus.dma_transfer = FALSE]

Bus_dma(m) ==
    IF m.bus.dma_dummy
    THEN Logged(Call("dma.wait", 0),
                IF m.bus.system_clock_counter % 2 = 1
                THEN [m EXCEPT !.bus.dma_dummy = FALSE] ELSE m)
    ELSE IF m.bus.system_clock_counter % 2 = 0
    THEN Only({ Logged(Call("dma.read", (m.bus.dma_page * 256) + m.bus.dma_addr),
                       [r.m EXCEPT !.bus.dma_data = r.data])
                : r \in {Bus_cpu_read(m, (m.bus.dma_page * 256) + m.bus.dma_addr)} })
    ELSE Logged(Call("dma.write", m.bus.dma_data),
                IF W8(m.bus.dma_addr + 1) = 0
                THEN [PPU_cpu_write(m, 4, m.bus.dma_data)
                         EXCEPT !.bus.dma_addr = 0,
                                !.bus.dma_transfer = FALSE,
                                !.bus.dma_dummy = TRUE]
                ELSE [PPU_cpu_write(m, 4, m.bus.dma_data)
                         EXCEPT !.bus.dma_addr = W8(@ + 1)])

Bus_cpu_slot(m) ==
    Logged(Call("apu.clock", 0),
           APU_clock(IF m.bus.dma_transfer
                     THEN Bus_dma(m)
                     ELSE Logged(Call("cpu.clock", m.cpu.cycles_remaining),
                                 CPU_clock(m))))

\* variant: the mapper's request is left standing when the CPU is called
Bus_interrupts_pending(m) ==
    Only({ IF Cartridge_irq_state(m1)
           THEN Logged(Call("cpu.irq", 0), CPU_irq(m1))
           ELSE m1
           : m1 \in {IF m.ppu.nmi
                     THEN Logged(Call("cpu.nmi", 0),
                                 CPU_nmi([m EXCEPT !.ppu.nmi = FALSE]))
                     ELSE m} })

Bus_interrupts(m) ==
    Only({ IF Cartridge_irq_state(m1)
           THEN Logged(Call("cpu.irq", 0),
                       CPU_irq([m1 EXCEPT !.cartridge = Cartridge_irq_clear(@)]))
           ELSE m1
           : m1 \in {IF m.ppu.nmi
                     THEN Logged(Call("cpu.nmi", 0),
                                 CPU_nmi([m EXCEPT !.ppu.nmi = FALSE]))
                     ELSE m} })

\* variant: the CPU slot comes every second system tick
Bus_clock_half(m) ==
    Only({ [Bus_interrupts(IF m1.bus.system_clock_counter % 2 = 0
                           THEN Bus_cpu_slot(m1) ELSE m1)
               EXCEPT !.bus.system_clock_counter = @ + 1]
           : m1 \in {Logged(Call("ppu.clock", 0), PPU_clock(m))} })

Bus_clock(m) ==
    Only({ [Bus_interrupts(IF m1.bus.system_clock_counter % 3 = 0
                           THEN Bus_cpu_slot(m1) ELSE m1)
               EXCEPT !.bus.system_clock_counter = @ + 1]
           : m1 \in {Logged(Call("ppu.clock", 0), PPU_clock(m))} })

----------------------------------------------------------------------------
\* Power-on state (Emulator::Emulator, Bus::Bus, CPU::CPU, PPU::PPU, APU::APU)
\* and ROM loading (Emulator::load_rom)

NoCartridge ==
    [present |-> FALSE, prg_banks |-> 0, prg_rom |-> <<>>, fill |-> 0,
     chr_banks |-> 0, chr_rom |-> <<>>]

PowerOn ==
    LET m0 == [cpu |-> [A |-> 0, X |-> 0, Y |-> 0, SP |-> 0, PC |-> 0, P |-> 0,
                        total_cycles |-> 0, cycles_remaining |-> 0,
                        addr_abs |-> 0, addr_rel |-> 0, opcode |-> 0, fetched |-> 0],
               ram |-> <<>>,
               ppu |-> [nmi |-> FALSE],
               apu |-> [frame_counter_mode |-> FALSE, irq_inhibit |-> FALSE,
                        cycles |-> 0, dmc |-> DmcZero],
               bus |-> [system_clock_counter |-> 0,
                        dma_transfer |-> FALSE, dma_page |-> 0, dma_addr |-> 0,
                        dma_data |-> 0, dma_dummy |-> TRUE,
                        controller_state |-> <<0, 0>>, controller_shift |-> <<0, 0>>],
               cartridge |-> NoCartridge,
               calls |-> <<>>]
    IN  APU_set_dmc_read_callback(APU_reset(PPU_reset(CPU_reset(m0))))

load_rom(cart) == Bus_reset([PowerOn EXCEPT !.cartridge = cart])

Commit(m) ==
    /\ cpu' = m.cpu
    /\ ram' = m.ram
    /\ ppu' = m.ppu
    /\ apu' = m.apu
    /\ bus' = m.bus
    /\ cartridge' = m.cartridge
    /\ calls' = m.calls

Start(m) ==
    /\ cpu = m.cpu
    /\ ram = m.ram
    /\ ppu = m.ppu
    /\ apu = m.apu
    /\ bus = m.bus
    /\ cartridge = m.cartridge
    /\ calls = <<>>

----------------------------------------------------------------------------
\* ROM images (inputs).  NROM-128: one 16 KiB bank visible at $8000 and
\* $C000.  Unlisted bytes hold NOP ($EA).

Place(base, bytes) == [k \in base..(base + Len(bytes) - 1) |-> bytes[k - base + 1]]

IrqHandler == 49152 + 1024

NmiHandler == 49152 + 1280

\* vectors at $FFFA.. : NMI, RESET, IRQ/BRK
Vectors(resetVec) ==
    Place(16378, <<Lo(NmiHandler), Hi(NmiHandler), Lo(resetVec), Hi(resetVec),
                   Lo(IrqHandler), Hi(IrqHandler)>>)

Image(resetVec, code) ==
    [present |-> TRUE, prg_banks |-> 1, fill |-> 234,
     chr_banks |-> 1, chr_rom |-> <<>>,
     prg_rom |-> Place(resetVec % 16384, code)
                 @@ Place(IrqHandler % 16384, <<64>>)
                 @@ Place(NmiHandler % 16384, <<64>>)
                 @@ Vectors(resetVec)]

\* LDA #v ; PHA ; PLP ; PHP ; PLP ; NOP ...
FlagProgram(v) == Image(49152, <<169, v, 72, 40, 8, 40>>)

\* BRK at address a, the first instruction after reset
BrkProgram(a) == Image(a, <<0>>)

\* LDX #$FF ; LDA $C0F0,X ; LDA $C000,X ; STA $0010,X ; NOP $C0F0,X ;
\* LDA #$FF ; STA $10 ; LDY #$01 ; LDA ($10),Y ; LDA ($20),Y
TimingProgram ==
    Image(32768, <<162, 255, 189, 240, 192, 189, 0, 192, 157, 16, 0, 28, 240, 192,
                   169, 255, 133, 16, 160, 1, 177, 16, 177, 32>>)

\* at $C0F6: CLC ; BCS +2 ; BCC +1 ; NOP ; BCC +2 ; SEC ; NOP ;
\* at $C100: BCC -4 ; JMP $C102
BranchProgram ==
    Image(49398, <<24, 176, 2, 144, 1, 234, 144, 2, 56, 234, 144, 252, 76, 2, 193>>)

\* CLI ; JSR $C010 ; SEI ; ...   at $C010: PHP ; PLA ; RTS
CallProgram ==
    [Image(49152, <<88, 32, 16, 192, 120>>) EXCEPT
        !.prg_rom = Place(16, <<8, 104, 96>>) @@ @]

----------------------------------------------------------------------------
\* Bounds of the CPU-level runs

MaxCpuSteps == 40

MaxEvents == 2

----------------------------------------------------------------------------
\* History of a CPU-level run

NoEntry == [kind |-> "none", P |-> 0, PC |-> 0, SP |-> 0, ticks |-> 0, first_fetch |-> 0]

NoMark == [valid |-> FALSE, P |-> 0, PC |-> 0]

NoSpan == [valid |-> FALSE, ticks |-> 0, expect |-> 0, opcode |-> 0]

HistInit(m) ==
    [op |-> "init", pre |-> m.cpu, steps |-> 0, events |-> 0,
     since_fetch |-> 0, expect |-> 0, clean |-> FALSE,
     span |-> NoSpan,
     entry |-> NoEntry, php |-> NoMark, plp |-> NoMark, rti |-> NoMark]

NoDma == [active |-> FALSE, page |-> 0, oam_start |-> 0, slots |-> 0,
          reads |-> 0, writes |-> 0, good |-> TRUE]

NoDone == [valid |-> FALSE, slots |-> 0, reads |-> 0, writes |-> 0,
           good |-> TRUE, oam_ok |-> TRUE]

ObsInit ==
    [op |-> "init", steps |-> 0, resets |-> 0, pos |-> <<0, 0>>, sp |-> 0,
     latched |-> FALSE,
     recent |-> <<>>, dma |-> NoDma, done |-> NoDone]

Fetched(log) == \E k \in 1..Len(log) : log[k].op = "fetch"

\* ticks the instruction at PC is expected to occupy: base count, plus one
\* when a page was crossed and the operation accepts the penalty, plus one
\* for a taken branch, plus one more when its target is in another page
ExpectedTicks(m) ==
    Only({ Only({
        LET next == W16(m.cpu.PC + 2)
            dest == W16(next + (IF off >= 128 THEN off + 65280 ELSE off))
        IN  BaseCycles(d.op)
            + (IF d.am.data = 1 /\ d.ex.data = 1 THEN 1 ELSE 0)
            + (IF AddrMode(d.op) = "REL" /\ BranchTaken(Operate(d.op), m.cpu.P)
               THEN (IF Hi(dest) # Hi(next) THEN 2 ELSE 1)
               ELSE 0)
        : off \in {read(m, W16(m.cpu.PC + 1)).data} })
        : d \in {CPU_decode(m)} })

ClockHist(m) ==
    LET f   == Fetched(m.calls)
        opc == m.cpu.opcode
        e   == hist.entry
        ret == f /\ opc = 64 /\ e.kind # "none" /\ cpu.SP = W8(e.SP + 253)
    IN  [hist EXCEPT
            !.op = "clock", !.pre = cpu, !.steps = @ + 1,
            !.since_fetch = IF f THEN 1 ELSE IF @ > 0 THEN @ + 1 ELSE 0,
            !.expect = IF f THEN ExpectedTicks(Machine) ELSE @,
            !.clean = IF f THEN TRUE ELSE @,
            !.span = IF f /\ hist.clean /\ hist.since_fetch > 0
                     THEN [valid |-> TRUE, ticks |-> hist.since_fetch,
                           expect |-> hist.expect, opcode |-> cpu.opcode]
                     ELSE NoSpan,
            !.entry = IF ret THEN NoEntry
                      ELSE IF e.kind = "none" THEN e
                      ELSE [e EXCEPT !.ticks = @ + 1,
                                     !.first_fetch = IF @ = 0 /\ f THEN e.ticks + 1 ELSE @],
            !.php = IF f /\ opc = 8 THEN [valid |-> TRUE, P |-> cpu.P, PC |-> cpu.PC]
                    ELSE IF f THEN NoMark ELSE @,
            !.plp = IF f /\ opc = 40 /\ hist.php.valid
                    THEN [valid |-> TRUE, P |-> hist.php.P, PC |-> cpu.PC]
                    ELSE NoMark,
            !.rti = IF ret THEN [valid |-> TRUE, P |-> e.P, PC |-> e.PC] ELSE NoMark]

EntryHist(kind, taken) ==
    [hist EXCEPT
        !.op = kind, !.pre = cpu, !.steps = @ + 1, !.events = @ + 1,
        !.clean = IF taken THEN FALSE ELSE @,
        !.span = NoSpan,
        !.entry = IF taken
                  THEN [kind |-> kind, P |-> cpu.P, PC |-> cpu.PC, SP |-> cpu.SP,
                        ticks |-> 0, first_fetch |-> 0]
                  ELSE @,
        !.php = IF taken THEN NoMark ELSE @,
        !.plp = NoMark, !.rti = NoMark]

ResetHist ==
    [hist EXCEPT
        !.op = "reset", !.pre = cpu, !.steps = @ + 1, !.events = @ + 1,
        !.since_fetch = 0, !.expect = 0, !.clean = FALSE, !.span = NoSpan,
        !.entry = NoEntry, !.php = NoMark, !.plp = NoMark, !.rti = NoMark]

----------------------------------------------------------------------------
\* CPU-level specification: the host drives CPU::clock, CPU::irq, CPU::nmi
\* and CPU::reset directly on a CPU attached to the bus

\* addresses of the BRK under test: start, last two bytes of a page
BrkAddrs == {49152, 49406, 49407}

CpuRoms ==
    {BrkProgram(a) : a \in BrkAddrs}
    \cup {TimingProgram, BranchProgram, CallProgram, NoCartridge}

InitCpu ==
    \E cart \in CpuRoms :
        \E m \in {IF cart.present THEN load_rom(cart) ELSE PowerOn} :
            /\ Start(m)
            /\ hist = HistInit(m)
            /\ obs = ObsInit

CpuClock ==
    /\ hist.steps < MaxCpuSteps
    /\ \E m \in {CPU_clock(Machine)} : Commit(m) /\ hist' = ClockHist(m)
    /\ UNCHANGED obs

CpuIrq ==
    /\ hist.steps < MaxCpuSteps
    /\ hist.events < MaxEvents
    /\ \E m \in {CPU_irq(Machine)} : Commit(m)
    /\ hist' = EntryHist("irq", get_flag(cpu.P, I) = 0)
    /\ UNCHANGED obs

CpuNmi ==
    /\ hist.steps < MaxCpuSteps
    /\ hist.events < MaxEvents
    /\ \E m \in {CPU_nmi(Machine)} : Commit(m)
    /\ hist' = EntryHist("nmi", TRUE)
    /\ UNCHANGED obs

CpuReset ==
    /\ hist.steps < MaxCpuSteps
    /\ hist.events < MaxEvents
    /\ \E m \in {CPU_reset(Machine)} : Commit(m)
    /\ hist' = ResetHist
    /\ UNCHANGED obs

NextCpu == CpuClock \/ CpuIrq \/ CpuNmi \/ CpuReset

SpecCpu == InitCpu /\ [][NextCpu]_vars

----------------------------------------------------------------------------
\* Flag specification: every byte v is loaded into P (LDA #v ; PHA ; PLP),
\* then PHP ; PLP runs; only CPU::clock is driven

InitFlags ==
    \E v \in 0..255 :
        \E m \in {load_rom(FlagProgram(v))} :
            /\ Start(m)
            /\ hist = HistInit(m)
            /\ obs = ObsInit

NextFlags == CpuClock

SpecFlags == InitFlags /\ [][NextFlags]_vars

----------------------------------------------------------------------------
\* Observations shared by the CPU-level properties

Pushes == SelectSeq(calls, LAMBDA c : c.op = "push")

EntryTaken ==
    \/ hist.op = "nmi"
    \/ hist.op = "irq" /\ get_flag(hist.pre.P, I) = 0

Executed(opc) == hist.op = "clock" /\ Fetched(calls) /\ cpu.opcode = opc

\* status bytes pushed by the latest operation (PHP, BRK, NMI, IRQ)
StatusPushed ==
    IF EntryTaken \/ Executed(0) THEN {Pushes[3].arg}
    ELSE IF Executed(8) THEN {Pushes[1].arg}
    ELSE {}

VectorWord(addr) ==
    Bus_cpu_read(Machine, addr).data + (256 * Bus_cpu_read(Machine, addr + 1).data)

----------------------------------------------------------------------------
\* Bus-level specification: the host drives Bus::clock, and Bus::reset up to
\* MaxResets times during the first MaxResetStep steps of the run

MaxBusSteps == 1700

MaxResetStep == 52

MaxResets == 1

\* loop: (LDA $10 when pad = 1) ; LDA #$C0 ; STA $4014 ; JMP loop
DmaProgram(pad) ==
    Image(49152, (IF pad = 1 THEN <<165, 16>> ELSE <<>>)
                 \o <<169, 192, 141, 20, 64, 76, 0, 192>>)

ChipClocks(log) ==
    Only({ [k \in 1..Len(sel) |-> sel[k].op]
           : sel \in {SelectSeq(log, LAMBDA c :
                         c.op \in {"ppu.clock", "cpu.clock", "apu.clock"})} })

Called(log, name) == \E k \in 1..Len(log) : log[k].op = name

ArgOf(log, name) == (CHOOSE k \in 1..Len(log) : log[k].op = name)

ByteAt(addr) == Bus_cpu_read(Machine, addr).data

\* progress of the OAM DMA that is under way, as seen in one CPU slot
DmaSlot(d, m) ==
    LET rd == Called(m.calls, "dma.read")
        wr == Called(m.calls, "dma.write")
    IN  [d EXCEPT
            !.slots = @ + 1,
            !.reads = IF rd THEN @ + 1 ELSE @,
            !.writes = IF wr THEN @ + 1 ELSE @,
            !.good = /\ @
                     /\ ~Called(m.calls, "cpu.clock")
                     /\ rd => /\ m.calls[ArgOf(m.calls, "dma.read")].arg
                                    = (d.page * 256) + d.reads
                              /\ d.reads = d.writes
                     /\ wr => /\ m.calls[ArgOf(m.calls, "dma.write")].arg
                                    = ByteAt((d.page * 256) + d.writes)
                              /\ d.reads = d.writes + 1]

OamHolds(m, d) ==
    \A k \in 0..255 : m.ppu.oam[(d.oam_start + k) % 256] = ByteAt((d.page * 256) + k)

ClockObs(m) ==
    [op |-> "clock",
     steps |-> obs.steps + 1,
     resets |-> obs.resets,
     pos |-> <<ppu.scanline, ppu.cycle>>,
     sp |-> cpu.SP,
     latched |-> PPU_clock(Machine).ppu.nmi,
     recent |-> IF bus.dma_transfer \/ m.bus.dma_transfer THEN <<>>
                ELSE IF Len(obs.recent) = 3 THEN Tail(obs.recent) \o <<ChipClocks(m.calls)>>
                ELSE obs.recent \o <<ChipClocks(m.calls)>>,
     dma |-> IF ~bus.dma_transfer /\ m.bus.dma_transfer
             THEN [NoDma EXCEPT !.active = TRUE, !.page = m.bus.dma_page,
                                !.oam_start = m.ppu.oam_addr]
             ELSE IF bus.dma_transfer /\ ~m.bus.dma_transfer THEN NoDma
             ELSE IF bus.dma_transfer /\ bus.system_clock_counter % 3 = 0
             THEN DmaSlot(obs.dma, m)
             ELSE obs.dma,
     done |-> IF bus.dma_transfer /\ ~m.bus.dma_transfer
              THEN Only({ [valid |-> TRUE, slots |-> d.slots, reads |-> d.reads,
                           writes |-> d.writes, good |-> d.good,
                           oam_ok |-> OamHolds(m, d)]
                          : d \in {IF bus.system_clock_counter % 3 = 0
                                   THEN DmaSlot(obs.dma, m) ELSE obs.dma} })
              ELSE NoDone]

InitBus ==
    \E pad \in {0, 1} :
        \E m \in {load_rom(DmaProgram(pad))} :
            /\ Start(m)
            /\ hist = HistInit(m)
            /\ obs = ObsInit

BusClock ==
    /\ obs.steps < MaxBusSteps
    /\ \E m \in {Bus_clock(Machine)} : Commit(m) /\ obs' = ClockObs(m)
    /\ UNCHANGED hist

BusReset ==
    /\ obs.steps < MaxResetStep
    /\ obs.resets < MaxResets
    /\ \E m \in {Bus_reset(Machine)} : Commit(m)
    /\ obs' = [ObsInit EXCEPT !.op = "reset", !.steps = obs.steps + 1,
                              !.resets = obs.resets + 1]
    /\ UNCHANGED hist

NextBus == BusClock \/ BusReset

SpecBus == InitBus /\ [][NextBus]_vars

----------------------------------------------------------------------------
\* Frame specification: the host drives Bus::clock only, from power-on into
\* the vertical blank of the first frame

MaxFrameSteps == 82200

\* LDA #ctrl ; STA $2000 ; loop: JMP loop      (NMI handler: RTI)
NmiProgram(ctrl) == Image(49152, <<169, ctrl, 141, 0, 32, 76, 5, 192>>)

LoopAddr == 49152 + 5

InitFrame ==
    \E ctrl \in {0, 128} :
        \E m \in {load_rom(NmiProgram(ctrl))} :
            /\ Start(m)
            /\ hist = HistInit(m)
            /\ obs = ObsInit

FrameClock ==
    /\ obs.steps < MaxFrameSteps
    /\ \E m \in {Bus_clock(Machine)} : Commit(m) /\ obs' = ClockObs(m)
    /\ UNCHANGED hist

NextFrame == FrameClock

SpecFrame == InitFrame /\ [][NextFrame]_vars

----------------------------------------------------------------------------
\* C1: in a run with no DMA and no reset, the CPU and the APU are each
\* ticked exactly once per three PPU ticks, and within a system step the
\* order is PPU, then CPU, then APU.
Claim_C1 ==
    /\ obs.op = "clock" /\ obs.recent # <<>> =>
          obs.recent[Len(obs.recent)] \in
              {<<"ppu.clock">>, <<"ppu.clock", "cpu.clock", "apu.clock">>}
    /\ Len(obs.recent) = 3 =>
          LET all == obs.recent[1] \o obs.recent[2] \o obs.recent[3]
              count(name) == Cardinality({k \in 1..Len(all) : all[k] = name})
          IN  /\ count("ppu.clock") = 3
              /\ count("cpu.clock") = 1
              /\ count("apu.clock") = 1

\* three consecutive steps, the CPU fetching an opcode in the latest one
Witness_C1 ==
    /\ Len(obs.recent) = 3
    /\ Len(obs.recent[3]) = 3
    /\ Fetched(calls)

\* C2: every OAM DMA, from any reachable bus state (after any history,
\* reset() included), performs exactly 256 writes through $2004 with the
\* bytes of (page<<8)|0 .. (page<<8)|255 in order, occupies exactly 513 or
\* 514 CPU slots, and CPU.clock() is never called while it runs.
Claim_C2 ==
    obs.done.valid =>
        /\ obs.done.writes = 256
        /\ obs.done.reads = 256
        /\ obs.done.slots \in {513, 514}
        /\ obs.done.good
        /\ obs.done.oam_ok

\* C3: when the PPU clocks (241,1) it sets VBlank and latches NMI iff
\* nmi_enable is set; a latched NMI is cleared and delivered to the CPU
\* within at most 3 system ticks (here: in the same Bus::clock), and the
\* latch is never set when Bus::clock returns.
Claim_C3 ==
    /\ ~ppu.nmi
    /\ obs.op = "clock" =>
          /\ obs.latched <=> obs.pos = <<241, 1>> /\ Bit(ppu.control, 7) = 1
          /\ obs.pos = <<241, 1>> => ppu.vblank
          /\ obs.latched <=> Called(calls, "cpu.nmi")
          /\ Called(calls, "cpu.nmi") =>
                /\ Len(Pushes) = 3
                /\ Pushes[1].arg = Hi(LoopAddr)
                /\ Pushes[2].arg = Lo(LoopAddr)
                /\ get_flag(Pushes[3].arg, B) = 0
                /\ get_flag(Pushes[3].arg, U) = 1
                /\ cpu.PC = VectorWord(65530)
                /\ cpu.SP = W8(obs.sp + 253)

\* the NMI of the first vertical blank has just been delivered
Witness_C3 ==
    /\ obs.pos = <<241, 1>>
    /\ ppu.vblank
    /\ Called(calls, "cpu.nmi")
    /\ cpu.PC = NmiHandler

\* C4: a taken IRQ or NMI pushes PCH, then PCL, then a status byte equal to
\* the pre-interrupt P with B=0 and U=1 (so I is set only after the push),
\* and the RTI that ends the handler restores I to its pre-interrupt value.
Claim_C4 ==
    /\ EntryTaken =>
          /\ Len(Pushes) = 3
          /\ Pushes[1].arg = Hi(hist.pre.PC)
          /\ Pushes[2].arg = Lo(hist.pre.PC)
          /\ Pushes[3].arg = set_flag(set_flag(hist.pre.P, B, FALSE), U, TRUE)
          /\ get_flag(cpu.P, I) = 1
    /\ hist.rti.valid => get_flag(cpu.P, I) = get_flag(hist.rti.P, I)

\* C5: every taken interrupt entry (nmi(), or irq() with I=0) charges
\* exactly 7 cycles: the first opcode of the handler is fetched on the 8th
\* CPU tick after the entry.
Claim_C5 ==
    /\ EntryTaken => cpu.cycles_remaining = 7
    /\ hist.entry.kind # "none" /\ hist.entry.first_fetch = 0 => hist.entry.ticks < 8
    /\ hist.entry.first_fetch # 0 => hist.entry.first_fetch = 8

\* C6: BRK at address a pushes a+2, high byte first, and loads PC from
\* $FFFE/$FFFF.
Claim_C6 ==
    Executed(0) =>
        /\ Pushes[1].arg = Hi(W16(hist.pre.PC + 2))
        /\ Pushes[2].arg = Lo(W16(hist.pre.PC + 2))
        /\ cpu.PC = VectorWord(65534)

\* C7: for every P, PHP followed by PLP leaves C, Z, I, D, V and N as they
\* were, and after the PLP the live P has B=0 and U=1.
Claim_C7 ==
    hist.plp.valid =>
        /\ \A f \in {C, Z, I, D, V, N} : get_flag(cpu.P, f) = get_flag(hist.plp.P, f)
        /\ get_flag(cpu.P, B) = 0
        /\ get_flag(cpu.P, U) = 1

\* C8: in every observable CPU state (after reset, clock, nmi, irq) bit 5
\* of P is 1, and every status byte pushed by PHP, BRK, NMI or IRQ has
\* bit 5 set.
Claim_C8 ==
    /\ get_flag(cpu.P, U) = 1
    /\ \A b \in StatusPushed : get_flag(b, U) = 1

\* PHP has just run: its status byte is on the stack
Witness_C8 == Executed(8) /\ StatusPushed # {} /\ hist.pre.SP = W8(cpu.SP + 1)

\* C9: clock() fetches an opcode iff the remaining-cycle count is 0 when
\* the tick starts; every tick lowers the count by exactly one without
\* wrapping and raises the cycle counter by one; an instruction occupies
\* its base count, plus one when a page was crossed and the operation
\* accepts the penalty, plus one for a taken branch, plus one more when the
\* branch target is in another page.
Claim_C9 ==
    /\ hist.op = "clock" =>
          /\ Fetched(calls) <=> hist.pre.cycles_remaining = 0
          /\ cpu.total_cycles = hist.pre.total_cycles + 1
          /\ ~Fetched(calls) => cpu.cycles_remaining = hist.pre.cycles_remaining - 1
          /\ Fetched(calls) => cpu.cycles_remaining = hist.expect - 1
          /\ cpu.cycles_remaining < 255
    /\ hist.span.valid => hist.span.ticks = hist.span.expect

\* an indexed load that crossed a page has just completed in base+1 ticks
Witness_C9 ==
    /\ hist.span.valid
    /\ Operate(hist.span.opcode) = "LDA"
    /\ AddrMode(hist.span.opcode) = "ABX"
    /\ hist.span.ticks = BaseCycles(hist.span.opcode) + 1

----------------------------------------------------------------------------
\* Scanline specification: the host drives PPU::clock for two frames and
\* writes the mask register ($2001) around the start of the pre-render
\* scanline

MaxScanSteps == 178800

\* mask values written: rendering off, background on, sprites on
ScanMasks == {0, 8, 16}

NoLine == [valid |-> FALSE, scanline |-> 0, ticks |-> 0, skip |-> FALSE]

ScanInit ==
    [op |-> "init", steps |-> 0, pos |-> <<0, 0>>, ticks |-> 0,
     skip |-> FALSE, skipped |-> FALSE, last |-> NoLine]

\* the odd-frame condition as it stands before a tick at (-1, 0)
SkipDue(p) ==
    p.scanline = -1 /\ p.cycle = 0 /\ p.frame_count % 2 = 1 /\ RenderingEnabled(p)

ScanObs(m) ==
    [op |-> "tick",
     steps |-> obs.steps + 1,
     pos |-> <<ppu.scanline, ppu.cycle>>,
     ticks |-> IF m.ppu.scanline # ppu.scanline THEN 0 ELSE obs.ticks + 1,
     skip |-> SkipDue(ppu),
     skipped |-> IF m.ppu.scanline # ppu.scanline THEN FALSE
                 ELSE obs.skipped \/ SkipDue(ppu),
     last |-> IF m.ppu.scanline # ppu.scanline
              THEN [valid |-> TRUE, scanline |-> ppu.scanline,
                    ticks |-> obs.ticks + 1, skip |-> obs.skipped]
              ELSE obs.last]

InitScan ==
    \E m \in {load_rom(NmiProgram(0))} :
        /\ Start(m)
        /\ hist = HistInit(m)
        /\ obs = ScanInit

ScanTick ==
    /\ obs.steps < MaxScanSteps
    /\ \E m \in {PPU_clock(Machine)} : Commit(m) /\ obs' = ScanObs(m)
    /\ UNCHANGED hist

ScanMask ==
    /\ \/ ppu.scanline = 260 /\ ppu.cycle >= 339
       \/ ppu.scanline = -1 /\ ppu.cycle <= 2
    /\ \E data \in ScanMasks \ {ppu.mask} :
          \E m \in {PPU_cpu_write(Machine, 1, data)} : Commit(m)
    /\ obs' = [obs EXCEPT !.op = "write"]
    /\ UNCHANGED hist

NextScan == ScanTick \/ ScanMask

SpecScan == InitScan /\ [][NextScan]_vars

\* C11: at every PPU tick boundary scanline is in -1..260 and cycle in
\* 0..340; a scanline lasts 341 ticks, except that the pre-render scanline
\* lasts 340 ticks exactly when the frame counter is odd and rendering is
\* enabled at its cycle 0; no other cycle is skipped.
Claim_C11 ==
    /\ ppu.scanline \in -1..260
    /\ ppu.cycle \in 0..340
    /\ obs.last.valid =>
          obs.last.ticks = IF obs.last.scanline = -1 /\ obs.last.skip THEN 340 ELSE 341
    /\ obs.op = "tick" =>
          IF obs.skip
          THEN ppu.scanline = -1 /\ ppu.cycle = 2
          ELSE \/ ppu.scanline = obs.pos[1] /\ ppu.cycle = obs.pos[2] + 1
               \/ /\ obs.pos[2] = 340
                  /\ ppu.cycle = 0
                  /\ ppu.scanline = IF obs.pos[1] = 260 THEN -1 ELSE obs.pos[1] + 1

\* a pre-render scanline of an odd frame has just ended after 340 ticks
Witness_C11 ==
    /\ obs.last.valid
    /\ obs.last.scanline = -1
    /\ obs.last.skip
    /\ obs.last.ticks = 340
    /\ ppu.frame_count = 1

----------------------------------------------------------------------------
\* Frame-loop specification: the host calls Emulator::run_frame repeatedly;
\* each call polls PPU::frame_complete and calls Bus::clock until a frame
\* has completed.  The program turns rendering on right after reset.

MaxRunFrames == 3

\* mask values of the program: background on, sprites on
RunMasks == {8, 16}

\* LDA #mask ; STA $2001 ; loop: JMP loop
RenderProgram(mask) == Image(49152, <<169, mask, 141, 1, 32, 76, 5, 192>>)

NoFrame == [valid |-> FALSE, cycles |-> 0, ticks |-> 0, odd |-> FALSE]

RunInit(m) ==
    [op |-> "init", calls |-> 0, ticks |-> 0, from |-> m.cpu.total_cycles,
     odd |-> FALSE, rendering |-> TRUE, last |-> NoFrame]

InitRun ==
    \E mask \in RunMasks :
        \E m \in {load_rom(RenderProgram(mask))} :
            /\ Start(m)
            /\ hist = HistInit(m)
            /\ obs = RunInit(m)

\* one pass of the loop of run_frame: no frame is complete, Bus::clock runs
RunClock ==
    /\ obs.calls < MaxRunFrames
    /\ \E r \in {PPU_frame_complete(Machine)} :
          /\ ~r.data
          /\ \E m \in {Bus_clock(r.m)} : Commit(m)
    /\ obs' = [obs EXCEPT !.op = "clock", !.ticks = @ + 1,
                          !.rendering = @ /\ RenderingEnabled(ppu),
                          !.last = NoFrame]
    /\ UNCHANGED hist

\* the poll finds the frame complete: run_frame returns, the next call starts
RunReturn ==
    /\ obs.calls < MaxRunFrames
    /\ \E r \in {PPU_frame_complete(Machine)} :
          /\ r.data
          /\ Commit(r.m)
    /\ obs' = [op |-> "return", calls |-> obs.calls + 1, ticks |-> 0,
               from |-> cpu.total_cycles, odd |-> ppu.frame_count % 2 = 1,
               rendering |-> TRUE,
               last |-> [valid |-> obs.calls >= 1 /\ obs.rendering,
                         cycles |-> cpu.total_cycles - obs.from,
                         ticks |-> obs.ticks, odd |-> obs.odd]]
    /\ UNCHANGED hist

NextRun == RunClock \/ RunReturn

SpecRun == InitRun /\ [][NextRun]_vars

----------------------------------------------------------------------------
\* Register specification: the host drives PPU::clock and reads and writes
\* the PPU registers directly, from the state after loading a cartridge

MaxRegOps == 5

MaxRegTicks == 9

\* registers written: control, mask (to turn rendering on), scroll,
\* address and data
RegPorts == {0, 1, 5, 6, 7}

RegData == {0, 255}

RegInit == [op |-> "init", ops |-> 0, ticks |-> 0, port |-> 0, data |-> 0]

InitRegs ==
    \E m \in {load_rom(NmiProgram(0))} :
        /\ Start(m)
        /\ hist = HistInit(m)
        /\ obs = RegInit

RegWrite ==
    /\ obs.ops < MaxRegOps
    /\ \E port \in RegPorts, data \in RegData :
          /\ \E m \in {PPU_cpu_write(Machine, port, data)} : Commit(m)
          /\ obs' = [obs EXCEPT !.op = "write", !.ops = @ + 1,
                                !.port = port, !.data = data]
    /\ UNCHANGED hist

RegRead ==
    /\ obs.ops < MaxRegOps
    /\ \E r \in {PPU_cpu_read(Machine, 7)} :
          /\ Commit(r.m)
          /\ obs' = [obs EXCEPT !.op = "read", !.ops = @ + 1,
                                !.port = 7, !.data = r.data]
    /\ UNCHANGED hist

RegTick ==
    /\ obs.ticks < MaxRegTicks
    /\ \E m \in {PPU_clock(Machine)} : Commit(m)
    /\ obs' = [obs EXCEPT !.op = "tick", !.ticks = @ + 1]
    /\ UNCHANGED hist

NextRegs == RegWrite \/ RegRead \/ RegTick

SpecRegs == InitRegs /\ [][NextRegs]_vars

\* C13: in every reachable PPU state, after any sequence of PPU ticks and
\* of CPU reads and writes of $2000, $2005, $2006 and $2007, the loopy
\* registers satisfy v < $8000 and t < $8000, and fine-X is below 8.
Claim_C13 ==
    /\ ppu.vram_addr < 32768
    /\ ppu.tram_addr < 32768
    /\ ppu.fine_x < 8

----------------------------------------------------------------------------
\* MMC3 specification: the cartridge is the mapper of a 32 KiB MMC3 board
\* after construction; the CPU writes the IRQ registers and the PPU pulses
\* scanline(), in any order

\* $C000 latch, $C001 reload, $E000 disable and acknowledge, $E001 enable
Mmc3Ports == {49152, 49153, 57344, 57345}

Mmc3Data == {0, 1, 2, 16, 255}

NoPulse == [irq_counter |-> 0, irq_reload |-> FALSE, irq_enable |-> FALSE,
            irq_active |-> FALSE]

\* stage counts the writes of the sequence $C000 = n, $C001, $E001 seen
\* back to back with no IRQ pending; pulses counts scanline() since then
Mmc3Init == [op |-> "init", stage |-> 0, n |-> 0, pulses |-> 0,
             before |-> NoPulse]

Mmc3Stage(o, s, addr, data) ==
    CASE addr = 49152 /\ data >= 1 /\ ~Mapper004_irq_state(s) ->
           [o EXCEPT !.stage = 1, !.n = data, !.pulses = 0]
      [] addr = 49153 /\ o.stage = 1 -> [o EXCEPT !.stage = 2]
      [] addr = 57345 /\ o.stage = 2 -> [o EXCEPT !.stage = 3]
      [] OTHER -> [o EXCEPT !.stage = 0, !.n = 0, !.pulses = 0]

InitMmc3 ==
    /\ Start([PowerOn EXCEPT !.cartridge = Mapper004_reset(2, 1)])
    /\ hist = HistInit(PowerOn)
    /\ obs = Mmc3Init

Mmc3Write ==
    /\ \E addr \in Mmc3Ports, data \in Mmc3Data :
          /\ cartridge' = Mapper004_cpu_write(cartridge, addr, data)
          /\ obs' = [Mmc3Stage(obs, cartridge, addr, data)
                       EXCEPT !.op = "write", !.before = NoPulse]
    /\ UNCHANGED <<cpu, ram, ppu, apu, bus, calls, hist>>

Mmc3Pulse ==
    /\ cartridge' = Mapper004_scanline(cartridge)
    /\ obs' = [(IF obs.stage = 3 /\ obs.pulses <= obs.n
                  THEN [obs EXCEPT !.pulses = @ + 1]
                  ELSE [obs EXCEPT !.stage = 0, !.n = 0, !.pulses = 0])
                 EXCEPT !.op = "pulse",
                        !.before = [irq_counter |-> cartridge.irq_counter,
                                    irq_reload |-> cartridge.irq_reload,
                                    irq_enable |-> cartridge.irq_enable,
                                    irq_active |-> cartridge.irq_active]]
    /\ UNCHANGED <<cpu, ram, ppu, apu, bus, calls, hist>>

NextMmc3 == Mmc3Write \/ Mmc3Pulse

SpecMmc3 == InitMmc3 /\ [][NextMmc3]_vars

\* C14: after the writes $C000 = N (1 <= N <= 255), $C001 and $E001 with no
\* IRQ pending, irq_state() is false after each of the first N scanline()
\* pulses and true after pulse N + 1.
Claim_C14 ==
    obs.stage = 3 =>
        (Mapper004_irq_state(cartridge) <=> obs.pulses = obs.n + 1)

\* latch $10: the IRQ has appeared on the 17th pulse
Witness_C14 ==
    /\ obs.stage = 3
    /\ obs.n = 16
    /\ obs.pulses = 17
    /\ obs.op = "pulse"
    /\ Mapper004_irq_state(cartridge)

\* C15: a scanline() pulse raises the IRQ only when the IRQ is enabled and
\* the pulse decrements the counter from 1 to 0; a pulse that reloads the
\* counter from the latch, or one taken with the IRQ disabled, does not.
Claim_C15 ==
    (obs.op = "pulse" /\ cartridge.irq_active /\ ~obs.before.irq_active) =>
        /\ obs.before.irq_enable
        /\ obs.before.irq_counter = 1
        /\ ~obs.before.irq_reload

----------------------------------------------------------------------------
\* MMC1 specification: the cartridge is the mapper of an MMC1 board after
\* construction and the CPU writes its register window

MaxMmc1Writes == 10

\* one address in each of the four register windows
Mmc1Ports == {32768, 49151, 49152, 65535}

Mmc1Data == {0, 1, 128}

Mmc1Regs(s) == <<s.control_register, s.chr_bank_0, s.chr_bank_1, s.prg_bank>>

\* bits holds bit 0 of the writes made since the load register was last
\* empty (first write first); before holds the four registers before the
\* last write and loaded the value that write completed, if it was a fifth
Mmc1Init == [op |-> "init", writes |-> 0, addr |-> 0, data |-> 0,
             bits |-> <<>>, loaded |-> <<>>,
             before |-> Mmc1Regs(Mapper001_reset(2, 1))]

\* the value of five serial bits, the first one the least significant
SerialValue(bits) ==
    bits[1] + 2 * bits[2] + 4 * bits[3] + 8 * bits[4] + 16 * bits[5]

InitMmc1 ==
    /\ Start([PowerOn EXCEPT !.cartridge = Mapper001_reset(2, 1)])
    /\ hist = HistInit(PowerOn)
    /\ obs = Mmc1Init

Mmc1Write ==
    /\ obs.writes < MaxMmc1Writes
    /\ \E addr \in Mmc1Ports, data \in Mmc1Data :
          /\ cartridge' = Mapper001_cpu_write(cartridge, addr, data)
          /\ obs' = [op |-> "write", writes |-> obs.writes + 1,
                     addr |-> addr, data |-> data,
                     bits |-> IF Bit(data, 7) = 1 \/ Len(obs.bits) = 4
                                THEN <<>>
                                ELSE Append(obs.bits, Bit(data, 0)),
                     loaded |-> IF Bit(data, 7) = 0 /\ Len(obs.bits) = 4
                                  THEN Append(obs.bits, Bit(data, 0))
                                  ELSE <<>>,
                     before |-> Mmc1Regs(cartridge)]
    /\ UNCHANGED <<cpu, ram, ppu, apu, bus, calls, hist>>

NextMmc1 == Mmc1Write

SpecMmc1 == InitMmc1 /\ [][NextMmc1]_vars

\* a write with bit 7 set empties the load register and its count and sets
\* bits 2 and 3 of control; the bank registers keep their values
Mmc1ResetClears ==
    (obs.op = "write" /\ Bit(obs.data, 7) = 1) =>
        /\ cartridge.load_register = 0
        /\ cartridge.load_count = 0
        /\ cartridge.control_register = BitOr(obs.before[1], 12)
        /\ cartridge.chr_bank_0 = obs.before[2]
        /\ cartridge.chr_bank_1 = obs.before[3]
        /\ cartridge.prg_bank = obs.before[4]

\* the fifth write puts the five bits into the register its address
\* selects and leaves the other three alone
Mmc1LoadSelects ==
    obs.loaded # <<>> =>
        \A k \in 1..4 :
            Mmc1Regs(cartridge)[k] =
                IF k = BitAnd(obs.addr \div 8192, 3) + 1
                  THEN SerialValue(obs.loaded)
                  ELSE obs.before[k]

Mmc1CountBounded == cartridge.load_count \in 0..4

\* C16: a write with bit 7 set clears the load register and its bit count
\* and ORs control with $0C, leaving the CHR and PRG bank registers alone;
\* from an empty load register five writes with bit 7 clear load their five
\* bit-0 values, first write lowest, into the register selected by address
\* bits 13-14 of the fifth write and into no other; the bit count is in
\* 0..4 between writes.
Claim_C16 == Mmc1ResetClears /\ Mmc1LoadSelects /\ Mmc1CountBounded

----------------------------------------------------------------------------
\* PRG specification: a cartridge with one of the bank-switching mappers
\* and a PRG ROM of prg_banks * 16 KiB; the CPU writes the mapper's
\* registers and reads the ROM window

MaxPrgWrites == 5

PrgMappers == {1, 2, 4, 7}

PrgBankCounts == {1, 2, 8}

\* first and last address of each 8 KiB quarter that selects a register
PrgWritePorts == {32768, 32769, 65535}

PrgData == {0, 1, 6, 7, 15, 71, 128}

PrgReadPorts == {32768, 49151, 49152, 65535}

PrgInit == [op |-> "init", writes |-> 0, addr |-> 0, offset |-> 0]

InitPrg ==
    /\ \E id \in PrgMappers, prg_banks \in PrgBankCounts :
          Start([PowerOn EXCEPT
                   !.cartridge = Mapper_create(id, prg_banks, 1)])
    /\ hist = HistInit(PowerOn)
    /\ obs = PrgInit

PrgWrite ==
    /\ obs.writes < MaxPrgWrites
    /\ \E addr \in PrgWritePorts, data \in PrgData :
          /\ cartridge' = Mapper_cpu_write(cartridge, addr, data)
          /\ obs' = [obs EXCEPT !.op = "write", !.writes = @ + 1,
                                !.addr = addr, !.offset = 0]
    /\ UNCHANGED <<cpu, ram, ppu, apu, bus, calls, hist>>

PrgRead ==
    /\ \E addr \in PrgReadPorts :
          obs' = [obs EXCEPT !.op = "read", !.addr = addr,
                                !.offset = Mapper_cpu_read(cartridge, addr)]
    /\ UNCHANGED <<cpu, ram, ppu, apu, bus, cartridge, calls, hist>>

NextPrg == PrgWrite \/ PrgRead

SpecPrg == InitPrg /\ [][NextPrg]_vars

\* C17: for every mapper, every PRG bank count and every sequence of writes
\* to the mapper's registers, a CPU read of $8000-$FFFF resolves to an
\* offset below prg_banks * 16384, the size of the PRG ROM.
Claim_C17 ==
    obs.op = "read" => obs.offset < cartridge.mapper.prg_banks * 16384

----------------------------------------------------------------------------
\* DMA specification: the host drives Bus::clock only, no reset, on the
\* program that starts an OAM DMA on every pass of its loop

MaxDmaSteps == 4800

\* count numbers the DMAs of the run; entry_odd is the parity of the CPU's
\* total_cycles when the store to $4014 executed; slots counts the CPU
\* slots (system steps with system_clock_counter % 3 = 0) taken by the DMA
\* in place of CPU::clock; done marks the step that ended a DMA
DmaInit == [op |-> "init", steps |-> 0, count |-> 0, entry_odd |-> FALSE,
            slots |-> 0, done |-> FALSE]

DmaObs(m) ==
    [op |-> "clock",
     steps |-> obs.steps + 1,
     count |-> IF ~bus.dma_transfer /\ m.bus.dma_transfer
                 THEN obs.count + 1 ELSE obs.count,
     entry_odd |-> IF ~bus.dma_transfer /\ m.bus.dma_transfer
                     THEN cpu.total_cycles % 2 = 1 ELSE obs.entry_odd,
     slots |-> IF ~bus.dma_transfer /\ m.bus.dma_transfer THEN 0
               ELSE IF bus.dma_transfer /\ bus.system_clock_counter % 3 = 0
                 THEN obs.slots + 1
               ELSE obs.slots,
     done |-> bus.dma_transfer /\ ~m.bus.dma_transfer]

InitDma ==
    \E pad \in {0, 1} :
        \E m \in {load_rom(DmaProgram(pad))} :
            /\ Start(m)
            /\ hist = HistInit(m)
            /\ obs = DmaInit

DmaClock ==
    /\ obs.steps < MaxDmaSteps
    /\ \E m \in {Bus_clock(Machine)} : Commit(m) /\ obs' = DmaObs(m)
    /\ UNCHANGED hist

NextDma == DmaClock

SpecDma == InitDma /\ [][NextDma]_vars

\* C18: every OAM DMA of a run keeps the CPU suspended for 514 CPU cycles
\* when the CPU's cycle counter was odd as the store to $4014 executed, and
\* for 513 when it was even.
Claim_C18 ==
    obs.done => obs.slots = (IF obs.entry_odd THEN 514 ELSE 513)

----------------------------------------------------------------------------
\* Controller specification: from the state after loading a cartridge the
\* host sets the controller state bytes and the two controller ports are
\* written and read through the bus

\* variant: the new state goes to the shift register as well
Bus_set_controller_state_live(m, controller, state) ==
    IF controller < 2
      THEN [m EXCEPT !.bus.controller_state[controller + 1] = state,
                     !.bus.controller_shift[controller + 1] = state]
      ELSE m

Bus_set_controller_state(m, controller, state) ==
    IF controller < 2
      THEN [m EXCEPT !.bus.controller_state[controller + 1] = state]
      ELSE m

MaxPadSets == 2

MaxPadWrites == 2

MaxPadReads == 9

\* A, Select, Down, Right held; B, Start, Up, Left held
PadStates == {165, 90}

\* strobe is bit 0 of the last value written to $4016 and latched the two
\* state bytes at that write; n counts the reads of each port since then;
\* port and data describe the last read
PadInit == [op |-> "init", sets |-> 0, writes |-> 0, reads |-> 0,
            strobe |-> 0, latched |-> <<0, 0>>, n |-> <<0, 0>>,
            port |-> 1, data |-> 0]

InitPad ==
    \E m \in {load_rom(NmiProgram(0))} :
        /\ Start(m)
        /\ hist = HistInit(m)
        /\ obs = PadInit

PadSet ==
    /\ obs.sets < MaxPadSets
    /\ \E controller \in {0, 1}, state \in PadStates :
          \E m \in {Bus_set_controller_state(Machine, controller, state)} :
              Commit(m)
    /\ obs' = [obs EXCEPT !.op = "set", !.sets = @ + 1]
    /\ UNCHANGED hist

PadWrite ==
    /\ obs.writes < MaxPadWrites
    /\ \E data \in {0, 1} :
          /\ \E m \in {Bus_cpu_write(Machine, 16406, data)} : Commit(m)
          /\ obs' = [obs EXCEPT !.op = "write", !.writes = @ + 1,
                                !.strobe = Bit(data, 0),
                                !.latched = bus.controller_state,
                                !.n = <<0, 0>>]
    /\ UNCHANGED hist

PadRead ==
    /\ obs.writes >= 1
    /\ obs.reads < MaxPadReads
    /\ \E port \in {1, 2} :
          \E r \in {Bus_cpu_read(Machine, 16405 + port)} :
              /\ Commit(r.m)
              /\ obs' = [obs EXCEPT !.op = "read", !.reads = @ + 1,
                                    !.n[port] = @ + 1,
                                    !.port = port, !.data = r.data]
    /\ UNCHANGED hist

NextPad == PadSet \/ PadWrite \/ PadRead

SpecPad == InitPad /\ [][NextPad]_vars

\* C19: while bit 0 of the last value written to $4016 is 1, a read of
\* $4016 or $4017 returns the A button (bit 7 of the controller's state
\* byte) and leaves the shift register where it was.  Stated for reads
\* made while the state bytes are the ones present at the write.
Claim_C19 ==
    (obs.op = "read" /\ obs.strobe = 1
        /\ bus.controller_state = obs.latched) =>
        /\ obs.data = Bit(bus.controller_state[obs.port], 7)
        /\ bus.controller_shift[obs.port] = bus.controller_state[obs.port]

\* C20: after a write to $4016 made while a controller holds state byte s,
\* the first eight reads of that controller's port return bits 7, 6, ..., 0
\* of s in bit 0 of the value read, whatever set_controller_state calls
\* and reads of the other port come in between.
Claim_C20 ==
    (obs.op = "read" /\ obs.n[obs.port] <= 8) =>
        obs.data = Bit(obs.latched[obs.port], 8 - obs.n[obs.port])

\* the eighth read of port $4017 has returned the Right button of the
\* state latched at the write, after the state byte was changed and the
\* other port was read
Witness_C20 ==
    /\ obs.op = "read"
    /\ obs.port = 2
    /\ obs.n = <<1, 8>>
    /\ obs.latched[2] = 165
    /\ bus.controller_state[2] = 90
    /\ obs.data = 1

----------------------------------------------------------------------------
\* Sequencer specification: from the state after loading a cartridge the
\* host drives APU::clock and writes the frame counter register $4017

MaxApuTicks == 19000

MaxSeqWrites == 2

\* 4-step mode, 5-step mode
SeqData == {0, 128}

NoPass == [valid |-> FALSE, clean |-> FALSE, mode |-> FALSE, q |-> 0, h |-> 0]

\* c and mode are the cycle count and the mode met by the last APU::clock,
\* quarter and half the clocks it issued; q and h count the clocks of the
\* pass under way, first tells that no APU::clock of it has run yet and
\* clean that all of them met the same mode; pass describes the pass the
\* last APU::clock ended, if it ended one
SeqInit == [op |-> "init", ticks |-> 0, writes |-> 0, c |-> 0, mode |-> FALSE,
            quarter |-> FALSE, half |-> FALSE, q |-> 0, h |-> 0,
            first |-> TRUE, clean |-> TRUE, pass |-> NoPass]

SeqObs(m) ==
    Only({ Only({ [op |-> "clock", ticks |-> obs.ticks + 1,
                   writes |-> obs.writes,
                   c |-> apu.cycles, mode |-> apu.frame_counter_mode,
                   quarter |-> e[1], half |-> e[2],
                   q |-> IF e[3] THEN 0 ELSE n[1],
                   h |-> IF e[3] THEN 0 ELSE n[2],
                   first |-> e[3],
                   clean |-> e[4],
                   pass |-> IF e[3]
                              THEN [valid |-> TRUE, clean |-> e[4],
                                    mode |-> apu.frame_counter_mode,
                                    q |-> n[1], h |-> n[2]]
                              ELSE NoPass] :
                  n \in { <<IF e[1] THEN obs.q + 1 ELSE obs.q,
                            IF e[2] THEN obs.h + 1 ELSE obs.h>> } }) :
           e \in { <<Called(m.calls, "apu.quarter_frame"),
                     Called(m.calls, "apu.half_frame"),
                     m.apu.cycles <= apu.cycles,
                     obs.first \/ (obs.clean
                                    /\ apu.frame_counter_mode = obs.mode)>> } })

InitSeq ==
    \E m \in {load_rom(NmiProgram(0))} :
        /\ Start(m)
        /\ hist = HistInit(m)
        /\ obs = SeqInit

SeqClock ==
    /\ obs.ticks < MaxApuTicks
    /\ \E m \in {APU_clock(Machine)} : Commit(m) /\ obs' = SeqObs(m)
    /\ UNCHANGED hist

SeqWrite ==
    /\ obs.writes < MaxSeqWrites
    /\ \E data \in SeqData :
          \E m \in {APU_cpu_write(Machine, 16407, data)} : Commit(m)
    /\ obs' = [obs EXCEPT !.op = "write", !.writes = @ + 1, !.pass = NoPass]
    /\ UNCHANGED hist

NextSeq == SeqClock \/ SeqWrite

SpecSeq == InitSeq /\ [][NextSeq]_vars

\* the cycle count that ends the pass of a mode
TerminalStep(mode) == IF mode THEN 18640 ELSE 14914

\* C21: APU::clock issues a quarter-frame clock exactly at the cycle counts
\* 3728, 7456, 11185 and the terminal step of the mode (14914 or 18640) and
\* a half-frame clock exactly at 7456 and the terminal step, so that a pass
\* holds 4 quarter-frame and 2 half-frame clocks.
Claim_C21 ==
    /\ obs.op = "clock" =>
          /\ obs.quarter <=>
                obs.c \in {3728, 7456, 11185, TerminalStep(obs.mode)}
          /\ obs.half <=> obs.c \in {7456, TerminalStep(obs.mode)}
    /\ (obs.pass.valid /\ obs.pass.clean) =>
          obs.pass.q = 4 /\ obs.pass.h = 2

\* C22: whatever is written to $4017 and whenever, the cycle counter of
\* the sequencer does not exceed the terminal step of the mode in effect.
Claim_C22 == apu.cycles <= TerminalStep(apu.frame_counter_mode)

----------------------------------------------------------------------------
\* The DMC channel: writes of its registers and of $4015, and the
\* dmc.clock_timer() call that APU::clock makes once per CPU cycle.  The
\* channel has finitely many states, so the clock is not bounded; it is
\* the one step with a fairness condition, because the bus clocks the APU
\* for as long as the emulator runs.  $4010 is not written: the loop flag
\* stays clear and the timer period 0, as APU::reset leaves them, so that
\* the timer expires at every clock

MaxDmcWrites == 4

\* $4012 (sample address), $4013 (sample length) and $4015 (channel enables)
DmcPorts == {16402, 16403, 16405}

DmcPortData(addr) ==
    CASE addr = 16402 -> {255}      \* sample address $FFC0
      [] addr = 16403 -> {0, 4}     \* sample length 1, 65
      [] addr = 16405 -> {0, 16}    \* DMC disabled, enabled

\* live: the last write set bit 4 of $4015 while the sample length was not
\* zero; fetched: the read callback has been called since that write
DmcInit == [op |-> "init", writes |-> 0, live |-> FALSE, fetched |-> FALSE]

\* the emulator as constructed (APU::APU, then Bus::connect_apu) and the
\* emulator after load_rom has reset the bus
InitDmc ==
    \E m \in {PowerOn, load_rom(NmiProgram(0))} :
        /\ Start(m)
        /\ hist = HistInit(m)
        /\ obs = DmcInit

DmcClock ==
    /\ \E m \in {DMC_clock_timer(Machine)} :
          /\ Commit(m)
          /\ obs' = [obs EXCEPT !.op = "clock",
                                !.fetched = @ \/ Called(m.calls, "dmc.read")]
    /\ UNCHANGED hist

DmcWrite ==
    /\ obs.writes < MaxDmcWrites
    /\ \E addr \in DmcPorts : \E data \in DmcPortData(addr) :
          /\ \E m \in {APU_cpu_write(Machine, addr, data)} : Commit(m)
          /\ obs' = [op |-> "write", writes |-> obs.writes + 1,
                     live |-> addr = 16405 /\ Bit(data, 4) = 1
                                /\ apu.dmc.sample_length # 0,
                     fetched |-> FALSE]
    /\ UNCHANGED hist

NextDmc == DmcClock \/ DmcWrite

SpecDmc == InitDmc /\ [][NextDmc]_vars /\ WF_vars(DmcClock)

\* C23: once $4015 has been written with bit 4 set while the sample length
\* is not zero, and no register is written after it, the clocked DMC
\* fetches a sample byte through the read callback, and with the loop flag
\* clear its bytes_remaining reaches 0.
Claim_C23 ==
    /\ obs.live ~> (obs.fetched \/ ~obs.live)
    /\ (obs.live /\ ~apu.dmc.loop) ~>
          (apu.dmc.bytes_remaining = 0 \/ ~obs.live)

----------------------------------------------------------------------------
\* PPUSTATUS and the address latch: CPU writes of the PPU registers, CPU
\* reads of $2002 and $2007, and PPU ticks

MaxStOps == 5

MaxStTicks == 2

\* registers written: control, scroll, address and data
StPorts == {0, 5, 6, 7}

StData == {0, 255}

\* last is the last value written to a PPU register, if wrote; v, t and
\* status are the loopy registers and the status register met by the last
\* access; stage counts the $2006 writes that followed a read of $2002
\* with no other access in between, hi is the byte of the first of them
\* and w the address latch that the read met
StInit == [op |-> "init", ops |-> 0, ticks |-> 0, port |-> 0, data |-> 0,
           wrote |-> FALSE, last |-> 0, v |-> 0, t |-> 0, status |-> 0,
           stage |-> 0, hi |-> 0, w |-> FALSE]

InitSt ==
    \E m \in {load_rom(NmiProgram(0))} :
        /\ Start(m)
        /\ hist = HistInit(m)
        /\ obs = StInit

StWrite ==
    /\ obs.ops < MaxStOps
    /\ \E port \in StPorts, data \in StData :
          /\ \E m \in {PPU_cpu_write(Machine, port, data)} : Commit(m)
          /\ obs' = [obs EXCEPT
                        !.op = "write", !.ops = @ + 1,
                        !.port = port, !.data = data,
                        !.wrote = TRUE, !.last = data,
                        !.v = ppu.vram_addr, !.t = ppu.tram_addr,
                        !.status = StatusReg(ppu),
                        !.stage = IF port = 6 /\ obs.stage \in {1, 2}
                                    THEN @ + 1 ELSE 0,
                        !.hi = IF port = 6 /\ obs.stage = 1 THEN data ELSE @]
    /\ UNCHANGED hist

StRead ==
    /\ obs.ops < MaxStOps
    /\ \E port \in {2, 7} :
          /\ \E r \in {PPU_cpu_read(Machine, port)} :
                /\ Commit(r.m)
                /\ obs' = [obs EXCEPT
                              !.op = "read", !.ops = @ + 1,
                              !.port = port, !.data = r.data,
                              !.v = ppu.vram_addr, !.t = ppu.tram_addr,
                              !.status = StatusReg(ppu),
                              !.stage = IF port = 2 THEN 1 ELSE 0,
                              !.w = ppu.address_latch]
    /\ UNCHANGED hist

StTick ==
    /\ obs.ticks < MaxStTicks
    /\ \E m \in {PPU_clock(Machine)} : Commit(m)
    /\ obs' = [obs EXCEPT !.op = "tick", !.ticks = @ + 1]
    /\ UNCHANGED hist

NextSt == StWrite \/ StRead \/ StTick

SpecSt == InitSt /\ [][NextSt]_vars

\* C24: a read of $2002 returns the VBlank, sprite-0 hit and sprite overflow
\* flags in bits 7-5 and, in bits 4-0, the low five bits of the last value
\* written to a PPU register.
Claim_C24 ==
    (obs.op = "read" /\ obs.port = 2 /\ obs.wrote) =>
        obs.data = BitAnd(obs.status, 224) + (obs.last % 32)

\* C25: the two writes of $2006 that follow a read of $2002, with bytes hi
\* and lo, leave t = v = ((hi & $3F) << 8) | lo, whatever writes of $2005
\* and $2006 came before the read; the first of the two changes t only in
\* its high byte and leaves v as it was.
Claim_C25 ==
    /\ (obs.op = "write" /\ obs.stage = 2) =>
          /\ ppu.vram_addr = obs.v
          /\ ppu.tram_addr = ((obs.hi % 64) * 256) + (obs.t % 256)
    /\ (obs.op = "write" /\ obs.stage = 3) =>
          /\ ppu.tram_addr = ((obs.hi % 64) * 256) + obs.data
          /\ ppu.vram_addr = ppu.tram_addr

\* the two writes have been made after a read of $2002 that met the
\* address latch set by a preceding write
Witness_C25 ==
    /\ obs.op = "write" /\ obs.stage = 3
    /\ obs.hi = 255 /\ obs.data = 0
    /\ obs.w
    /\ ppu.vram_addr = 16128

----------------------------------------------------------------------------
\* Palette RAM: PPU::ppu_write and PPU::ppu_read on $3F00-$3FFF, and the
\* grayscale bit of the mask register, which the read applies

MaxPalWrites == 3

\* the four mirrored pairs, an unpaired entry of each half, the mirrors of
\* $3F10 and $3F04 further up, and a nametable address
PalAddrs ==
    {16128, 16132, 16136, 16140, 16144, 16148, 16152, 16156,
     16129, 16145, 16176, 16356, 8192}

PalData == {21, 255}

PalMirrors == {16144, 16148, 16152, 16156}

PalInit == [op |-> "init", writes |-> 0, addr |-> 0, data |-> 0]

InitPal ==
    \E m \in {load_rom(NmiProgram(0))} :
        /\ Start(m)
        /\ hist = HistInit(m)
        /\ obs = PalInit

PalWrite ==
    /\ obs.writes < MaxPalWrites
    /\ \E addr \in PalAddrs, data \in PalData :
          /\ \E m \in {PPU_ppu_write(Machine, addr, data)} : Commit(m)
          /\ obs' = [op |-> "write", writes |-> obs.writes + 1,
                     addr |-> addr, data |-> data]
    /\ UNCHANGED hist

\* $2001 with the grayscale bit clear or set
PalMask ==
    /\ \E data \in {0, 1} :
          /\ Bit(ppu.mask, 0) # data
          /\ \E m \in {PPU_cpu_write(Machine, 1, data)} : Commit(m)
    /\ obs' = [obs EXCEPT !.op = "mask"]
    /\ UNCHANGED hist

NextPal == PalWrite \/ PalMask

SpecPal == InitPal /\ [][NextPal]_vars

\* C26: after any sequence of PPU memory writes, ppu_read(a) equals
\* ppu_read(a - $10) for a = $3F10, $3F14, $3F18 and $3F1C, and the byte
\* just written through either address of such a pair is read back, cut
\* to the bits that the mask register lets through, through both.
Claim_C26 ==
    \A a \in PalMirrors :
        /\ PPU_ppu_read(Machine, a) = PPU_ppu_read(Machine, a - 16)
        /\ (obs.op = "write" /\ obs.addr \in {a, a - 16}) =>
              PPU_ppu_read(Machine, a - 16) =
                  BitAnd(obs.data, IF Bit(ppu.mask, 0) = 1 THEN 48 ELSE 63)

\* entry 4 holds $FF, and $15 has just been written through $3F10: it is
\* read back through $3F00 and $3F10, and entry 4 through $3F14
Witness_C26 ==
    /\ obs.op = "write" /\ obs.addr = 16144 /\ obs.data = 21
    /\ Sparse(ppu.palette, 4) = 255
    /\ PPU_ppu_read(Machine, 16128) = 21
    /\ PPU_ppu_read(Machine, 16144) = 21
    /\ PPU_ppu_read(Machine, 16148) = 63

----------------------------------------------------------------------------
\* Sprite evaluation: the PPU is clocked through the first scanlines of a
\* frame over an OAM that the CPU has filled, and $2000 selects the sprite
\* height at any point

MaxEvalTicks == 6400

MaxEvalWrites == 2

\* OAM with the Y of some entries set: such an entry has its own number as
\* tile, attribute 0 and X = 3 * number; the others are as reset leaves them
OamPattern(ys) ==
    [k \in 0..255 |->
        IF (k \div 4) \in DOMAIN ys
          THEN CASE k % 4 = 0 -> ys[k \div 4]
                 [] k % 4 = 1 -> k \div 4
                 [] k % 4 = 2 -> 0
                 [] OTHER -> 3 * (k \div 4)
          ELSE 255]

\* nine sprites on one line from entry 0 on; nine from entry 1 on with
\* entry 0 elsewhere; three scattered ones; eight on a line and a ninth
\* that joins them only with 16-pixel sprites; none
EvalPatterns ==
    { [e \in 0..8 |-> 0],
      [e \in 0..9 |-> IF e = 0 THEN 200 ELSE 1],
      (0 :> 0) @@ (5 :> 2) @@ (63 :> 0),
      [e \in 0..8 |-> IF e = 8 THEN 8 ELSE 0],
      <<>> }

\* cycle and scanline are those met by the last PPU::clock
EvalInit == [op |-> "init", ticks |-> 0, writes |-> 0, cycle |-> 0, scanline |-> 0]

InitEval ==
    \E ys \in EvalPatterns :
        \E m \in {[load_rom(NmiProgram(0)) EXCEPT !.ppu.oam = OamPattern(ys)]} :
            /\ Start(m)
            /\ hist = HistInit(m)
            /\ obs = EvalInit

EvalTick ==
    /\ obs.ticks < MaxEvalTicks
    /\ \E m \in {PPU_clock(Machine)} : Commit(m)
    /\ obs' = [obs EXCEPT !.op = "tick", !.ticks = @ + 1,
                          !.cycle = ppu.cycle, !.scanline = ppu.scanline]
    /\ UNCHANGED hist

\* $2000 with 8-pixel or 16-pixel sprites
EvalCtrl ==
    /\ obs.writes < MaxEvalWrites
    /\ \E data \in {0, 32} :
          /\ ppu.control # data
          /\ \E m \in {PPU_cpu_write(Machine, 0, data)} : Commit(m)
    /\ obs' = [obs EXCEPT !.op = "write", !.writes = @ + 1]
    /\ UNCHANGED hist

NextEval == EvalTick \/ EvalCtrl

SpecEval == InitEval /\ [][NextEval]_vars

\* the member of a set of entries that has exactly i members below it
KthEntry(R, i) == CHOOSE e \in R : Cardinality({d \in R : d < e}) = i

\* C27: the PPU::clock of cycle 257 of a visible scanline s leaves in the
\* secondary OAM the first eight, in OAM order, of the entries with
\* 0 <= s - Y < height and no others, sprite_zero_hit_possible exactly when
\* entry 0 is one of them, the overflow flag exactly when there is a ninth
\* entry in range, and a sprite count of at most 8; the count is at most 8
\* in every state.
Claim_C27 ==
    /\ ppu.sprite_count <= 8
    /\ (obs.op = "tick" /\ obs.cycle = 257 /\ obs.scanline \in 0..239) =>
          \E R \in {SpritesInRange(ppu)} :
              /\ ppu.sprite_count =
                    (IF Cardinality(R) > 8 THEN 8 ELSE Cardinality(R))
              /\ \A i \in 0..7 :
                    ppu.sprite_scanline[i] =
                        IF i < Cardinality(R)
                          THEN OamEntry(ppu, KthEntry(R, i))
                          ELSE SlotFill[i]
              /\ ppu.sprite_zero_hit_possible <=>
                    (0 \in R /\ Cardinality({d \in R : d < 0}) < 8)
              /\ ppu.sprite_overflow <=> Cardinality(R) >= 9

\* entries 1 to 9 are in range and entry 0 is not: entries 1 to 8 have been
\* copied, the overflow flag is set and sprite zero is not recorded
Witness_C27 ==
    /\ obs.op = "tick" /\ obs.cycle = 257 /\ obs.scanline = 16
    /\ ppu.sprite_overflow
    /\ ppu.sprite_count = 8
    /\ ~ppu.sprite_zero_hit_possible
    /\ ppu.sprite_scanline[0].id = 1
    /\ ppu.sprite_scanline[7].id = 8


\* the PPU::clock that meets scanline -1 at cycle 1, or at cycle 0 of an odd
\* frame with rendering enabled, when it moves on to cycle 1 at once
ClearingTick ==
    /\ ppu.scanline = -1
    /\ \/ ppu.cycle = 1
       \/ ppu.cycle = 0 /\ ppu.frame_count % 2 = 1 /\ RenderingEnabled(ppu)

\* C36: no step takes the sprite-overflow flag or the sprite-zero-hit flag
\* down except the PPU tick of scanline -1, cycle 1; the sprite evaluation
\* of a later scanline with eight or fewer sprites does not.
Claim_C36 ==
    [][ /\ (ppu.sprite_overflow /\ ~ppu'.sprite_overflow) => ClearingTick
        /\ (ppu.sprite_zero_hit /\ ~ppu'.sprite_zero_hit) => ClearingTick ]_vars

----------------------------------------------------------------------------
\* PPU::render_pixel.  The pixel pipeline (the background shifters, the
\* sprite shifters, the X countdown of the secondary OAM and
\* sprite_zero_being_rendered) is carried by the PPU record of this
\* specification only; the byte written to the screen buffer is an entry
\* of the call log

ShowBackgroundLeft(p) == Bit(p.mask, 1) = 1
ShowSpritesLeft(p) == Bit(p.mask, 2) = 1
ShowBackground(p) == Bit(p.mask, 3) = 1
ShowSprites(p) == Bit(p.mask, 4) = 1

\* bg_pixel: the two pattern shifters at the bit that fine_x selects
BgPixel(p) ==
    IF ShowBackground(p) /\ (ShowBackgroundLeft(p) \/ p.cycle >= 9)
      THEN 2 * Bit(p.bg_shifter_pattern_hi, 15 - p.fine_x)
           + Bit(p.bg_shifter_pattern_lo, 15 - p.fine_x)
      ELSE 0

BgPalette(p) ==
    IF ShowBackground(p) /\ (ShowBackgroundLeft(p) \/ p.cycle >= 9)
      THEN 2 * Bit(p.bg_shifter_attrib_hi, 15 - p.fine_x)
           + Bit(p.bg_shifter_attrib_lo, 15 - p.fine_x)
      ELSE 0

\* the loop over the sprites of the scanline: fg holds fg_pixel, fg_palette,
\* fg_priority and sprite_zero_being_rendered; the first sprite with an
\* opaque pixel ends it
RECURSIVE SpriteLoop(_, _, _)
SpriteLoop(p, i, fg) ==
    IF ~(i < p.sprite_count /\ i < 8) THEN fg
    ELSE IF p.sprite_scanline[i].x # 0 THEN SpriteLoop(p, i + 1, fg)
    ELSE Only({ IF px # 0
                  THEN [pixel |-> px,
                        palette |-> (p.sprite_scanline[i].attribute % 4) + 4,
                        priority |-> Bit(p.sprite_scanline[i].attribute, 5) = 0,
                        zero |-> fg.zero \/ i = 0]
                  ELSE SpriteLoop(p, i + 1,
                                  [pixel |-> px,
                                   palette |-> (p.sprite_scanline[i].attribute % 4) + 4,
                                   priority |-> Bit(p.sprite_scanline[i].attribute, 5) = 0,
                                   zero |-> fg.zero]) :
                px \in { 2 * Bit(p.sprite_shifter_pattern_hi[i], 7)
                         + Bit(p.sprite_shifter_pattern_lo[i], 7) } })

FgPixel(p) ==
    IF ShowSprites(p) /\ (ShowSpritesLeft(p) \/ p.cycle >= 9)
      THEN SpriteLoop(p, 0, [pixel |-> 0, palette |-> 0, priority |-> FALSE,
                             zero |-> FALSE])
      ELSE [pixel |-> 0, palette |-> 0, priority |-> FALSE,
            zero |-> p.sprite_zero_being_rendered]

\* the sprite 0 hit detection of the branch in which both pixels are opaque
SpriteZeroHit(p, bg, fg) ==
    /\ bg > 0 /\ fg.pixel > 0
    /\ p.sprite_zero_hit_possible /\ fg.zero
    /\ ShowBackground(p) /\ ShowSprites(p)
    /\ p.cycle < 256
    /\ IF ~(ShowBackgroundLeft(p) /\ ShowSpritesLeft(p))
         THEN p.cycle >= 9 ELSE p.cycle >= 2

\* pixel + 4 * palette_idx of the combined pixel
PixelIndex(p, bg, fg) ==
    IF bg = 0 /\ fg.pixel = 0 THEN 0
    ELSE IF bg = 0 THEN fg.pixel + 4 * fg.palette
    ELSE IF fg.pixel = 0 THEN bg + 4 * BgPalette(p)
    ELSE IF fg.priority THEN fg.pixel + 4 * fg.palette
    ELSE bg + 4 * BgPalette(p)

\* the sprites still to the right count down, the others shift
SpriteShift(p) ==
    [p EXCEPT
       !.sprite_scanline =
           [i \in 0..7 |->
               IF i < p.sprite_count /\ @[i].x > 0
                 THEN [@[i] EXCEPT !.x = @ - 1] ELSE @[i]],
       !.sprite_shifter_pattern_lo =
           [i \in 0..7 |->
               IF i < p.sprite_count /\ p.sprite_scanline[i].x = 0
                 THEN W8(@[i] * 2) ELSE @[i]],
       !.sprite_shifter_pattern_hi =
           [i \in 0..7 |->
               IF i < p.sprite_count /\ p.sprite_scanline[i].x = 0
                 THEN W8(@[i] * 2) ELSE @[i]]]

render_pixel(m) ==
    Only({ Logged([op |-> "ppu.pixel",
                   arg |-> BitAnd(PPU_ppu_read(m, 16128 + PixelIndex(m.ppu, v[1], v[2])),
                                  63)],
                  [m EXCEPT !.ppu =
                      SpriteShift([@ EXCEPT
                          !.sprite_zero_being_rendered = v[2].zero,
                          !.sprite_zero_hit =
                              @ \/ SpriteZeroHit(m.ppu, v[1], v[2])])]) :
           v \in { <<BgPixel(m.ppu), FgPixel(m.ppu)>> } })

\* The pixels at which the sprite 0 hit is decided.  PPU::clock calls
\* render_pixel at cycles 1 to 256 of the scanlines 0 to 239; the shifters
\* hold what the fetches of the tiles and of the sprites of the line left
\* in them, which is any pattern, so the inputs are drawn from small sets:
\* the four rendering bits of the mask, a cycle on either side of each
\* limit, fine X, the leftmost two background pixels, and up to two sprites
\* of which the first is the one evaluation put in slot 0

PixCycles == {1, 2, 8, 9, 255, 256}

PixMasks == {0, 8, 16, 24, 26, 28, 30}

PixBgPatterns == {0, 32768, 16384}

PixSlot(x, attribute) == [y |-> 10, id |-> 1, attribute |-> attribute, x |-> x]

PixInputs ==
    { [mask |-> mask, cycle |-> cycle, scanline |-> 11, fine_x |-> fine_x,
       bg_shifter_pattern_lo |-> bg, bg_shifter_pattern_hi |-> 0,
       bg_shifter_attrib_lo |-> 0, bg_shifter_attrib_hi |-> 0,
       sprite_count |-> count,
       sprite_zero_hit_possible |-> possible,
       sprite_zero_being_rendered |-> stale,
       sprite_scanline |->
           [i \in 0..7 |-> IF i = 0 /\ count >= 1 THEN PixSlot(x, attribute)
                           ELSE IF i = 1 /\ count >= 2 THEN PixSlot(0, 0)
                           ELSE SlotFill[i]],
       sprite_shifter_pattern_lo |->
           [i \in 0..7 |-> IF i = 0 /\ count >= 1 THEN lo
                           ELSE IF i = 1 /\ count >= 2 THEN 128 ELSE 0],
       sprite_shifter_pattern_hi |-> [i \in 0..7 |-> 0]] :
      mask \in PixMasks, cycle \in PixCycles, fine_x \in {0, 1},
      bg \in PixBgPatterns, count \in 0..2, x \in {0, 1},
      attribute \in {0, 32}, lo \in {0, 128},
      possible \in BOOLEAN, stale \in BOOLEAN }

PixInit == [op |-> "init", pre |-> <<>>]

\* sprite zero is recorded by evaluation only together with a sprite
InitPix ==
    \E q \in PixInputs :
        /\ q.sprite_zero_hit_possible => q.sprite_count >= 1
        /\ \E m \in {load_rom(NmiProgram(0))} :
              /\ Start([m EXCEPT !.ppu = q @@ m.ppu])
              /\ hist = HistInit(m)
              /\ obs = PixInit

PixRender ==
    /\ obs.op = "init"
    /\ \E m \in {render_pixel(Machine)} : Commit(m)
    /\ obs' = [op |-> "render", pre |-> ppu]
    /\ UNCHANGED hist

NextPix == PixRender

SpecPix == InitPix /\ [][NextPix]_vars

\* the conditions of the hit, stated on the pipeline that render_pixel meets
BgOpaque(q) ==
    Bit(q.bg_shifter_pattern_lo, 15 - q.fine_x) = 1
    \/ Bit(q.bg_shifter_pattern_hi, 15 - q.fine_x) = 1

SpriteZeroOpaque(q) ==
    /\ q.sprite_count >= 1
    /\ q.sprite_scanline[0].x = 0
    /\ (Bit(q.sprite_shifter_pattern_lo[0], 7) = 1
        \/ Bit(q.sprite_shifter_pattern_hi[0], 7) = 1)

LeftClipDisabled(q) == ShowBackgroundLeft(q) /\ ShowSpritesLeft(q)

\* C28: render_pixel sets the sprite-zero-hit flag exactly when the
\* background pixel and the pixel of sprite 0 are both opaque, sprite 0 is
\* in the sprite set of the scanline, show_background and show_sprites are
\* set, the cycle is not 256, and left-edge clipping is disabled or the
\* cycle is at least 9.
Claim_C28 ==
    obs.op = "render" =>
        (ppu.sprite_zero_hit <=>
            /\ BgOpaque(obs.pre) /\ SpriteZeroOpaque(obs.pre)
            /\ obs.pre.sprite_zero_hit_possible
            /\ ShowBackground(obs.pre) /\ ShowSprites(obs.pre)
            /\ obs.pre.cycle # 256
            /\ (LeftClipDisabled(obs.pre) \/ obs.pre.cycle >= 9))

----------------------------------------------------------------------------
\* JAM: the CPU is clocked alone (no NMI, IRQ or reset) through a program
\* that loads the registers, pushes a byte and then meets one of the twelve
\* JAM opcodes

MaxJamSteps == 40

JamOpcodes == {2, 18, 34, 50, 66, 82, 98, 114, 146, 178, 210, 242}

\* the program starts at $C000 or at $C0F8, which puts the JAM at $C0FF
JamStarts == {49152, 49400}

\* LDA #$55 ; LDX #$66 ; LDY #$77 ; PHA ; JAM
JamProgram(start, opcode) ==
    Image(start, <<169, 85, 162, 102, 160, 119, 72, opcode>>)

\* jam: a JAM opcode has been fetched, at address a; fetches counts the
\* fetches of it; at is the machine that the first of them met
JamInit == [op |-> "init", steps |-> 0, jam |-> FALSE, a |-> 0, fetches |-> 0,
            at |-> <<>>]

InitJam ==
    \E start \in JamStarts, opcode \in JamOpcodes :
        \E m \in {load_rom(JamProgram(start, opcode))} :
            /\ Start(m)
            /\ hist = HistInit(m)
            /\ obs = JamInit

JamClock ==
    /\ obs.steps < MaxJamSteps
    /\ \E m \in {CPU_clock(Machine)} :
          /\ Commit(m)
          /\ \E f \in {Fetched(m.calls) /\ m.cpu.opcode \in JamOpcodes} :
                obs' = [op |-> "clock", steps |-> obs.steps + 1,
                        jam |-> obs.jam \/ f,
                        a |-> IF f /\ ~obs.jam THEN cpu.PC ELSE obs.a,
                        fetches |-> IF f THEN obs.fetches + 1 ELSE obs.fetches,
                        at |-> IF f /\ ~obs.jam
                                 THEN [cpu |-> cpu, ram |-> ram, ppu |-> ppu,
                                       apu |-> apu, bus |-> bus,
                                       cartridge |-> cartridge]
                                 ELSE obs.at]
    /\ UNCHANGED hist

NextJam == JamClock

SpecJam == InitJam /\ [][NextJam]_vars

\* C29: once a JAM opcode has been fetched at address a, and with no NMI,
\* IRQ or reset, PC equals a at every instruction boundary, A, X, Y and SP
\* keep the values they had at the fetch, and memory and the devices on
\* the bus are as they were.
Claim_C29 ==
    obs.jam =>
        /\ cpu.cycles_remaining = 0 => cpu.PC = obs.a
        /\ cpu.A = obs.at.cpu.A /\ cpu.X = obs.at.cpu.X
        /\ cpu.Y = obs.at.cpu.Y /\ cpu.SP = obs.at.cpu.SP
        /\ ram = obs.at.ram /\ ppu = obs.at.ppu /\ apu = obs.at.apu
        /\ bus = obs.at.bus /\ cartridge = obs.at.cartridge

\* the JAM at $C0FF has been fetched eight times and the CPU is at an
\* instruction boundary with the registers that the program loaded
Witness_C29 ==
    /\ obs.jam /\ obs.a = 49407 /\ obs.fetches = 8
    /\ cpu.cycles_remaining = 0
    /\ cpu.PC = 49407
    /\ cpu.A = 85 /\ cpu.X = 102 /\ cpu.Y = 119 /\ cpu.SP = 252
    /\ Sparse(ram, 509) = 85

----------------------------------------------------------------------------
\* Indirect JMP: the CPU is clocked through a program that stores three
\* bytes around a pointer in RAM (at the start of its page, behind it and
\* at it, in this order) and then jumps through the pointer

MaxIndSteps == 60

\* $10FF, $00FF and $07FF end a page; $1000 and $02FE do not
IndPointers == {4351, 255, 2047, 4096, 766}

\* the bytes stored at the pointer, behind it and at the start of its page
IndBytes == {<<52, 0, 120>>, <<52, 86, 120>>, <<0, 192, 128>>}

\* LDA #page ; STA ptr & $FF00 ; LDA #next ; STA ptr + 1 ; LDA #lo ;
\* STA ptr ; JMP (ptr)
IndProgram(ptr, b) ==
    Image(49152,
          <<169, b[3], 141, 0, Hi(ptr),
            169, b[2], 141, Lo(ptr + 1), Hi(ptr + 1),
            169, b[1], 141, Lo(ptr), Hi(ptr),
            108, Lo(ptr), Hi(ptr)>>)

\* jmp: the last CPU::clock executed the indirect JMP, with pointer ptr
IndInit == [op |-> "init", steps |-> 0, jmp |-> FALSE, ptr |-> 0]

InitInd ==
    \E ptr \in IndPointers, b \in IndBytes :
        \E m \in {load_rom(IndProgram(ptr, b))} :
            /\ Start(m)
            /\ hist = HistInit(m)
            /\ obs = IndInit

IndClock ==
    /\ obs.steps < MaxIndSteps
    /\ \E m \in {CPU_clock(Machine)} :
          /\ Commit(m)
          /\ \E f \in {Fetched(m.calls) /\ m.cpu.opcode = 108} :
                obs' = [op |-> "clock", steps |-> obs.steps + 1, jmp |-> f,
                        ptr |-> IF f
                                  THEN Bus_cpu_read(Machine, W16(cpu.PC + 1)).data
                                       + 256 * Bus_cpu_read(Machine, W16(cpu.PC + 2)).data
                                  ELSE obs.ptr]
    /\ UNCHANGED hist

NextInd == IndClock

SpecInd == InitInd /\ [][NextInd]_vars

\* C30: an indirect JMP through the pointer p sets the low byte of PC from
\* p and the high byte from p + 1, unless p is $xxFF: then the high byte
\* comes from $xx00.
Claim_C30 ==
    obs.jmp =>
        cpu.PC = Bus_cpu_read(Machine, obs.ptr).data
                 + 256 * Bus_cpu_read(Machine,
                                      IF obs.ptr % 256 = 255
                                        THEN obs.ptr - 255
                                        ELSE obs.ptr + 1).data

\* $10FF = $34, $1100 = $00, $1000 = $78, and JMP ($10FF) has set PC = $7834
Witness_C30 ==
    /\ obs.jmp /\ obs.ptr = 4351
    /\ Bus_cpu_read(Machine, 4351).data = 52
    /\ Bus_cpu_read(Machine, 4352).data = 0
    /\ Bus_cpu_read(Machine, 4096).data = 120
    /\ cpu.PC = 30772

----------------------------------------------------------------------------
\* ADC and SBC as functions of A, the operand and the flags: the operation
\* is applied to the CPU as the zero-page addressing mode leaves it, with
\* the operand at $0010, for every A, every operand, either carry and
\* either setting of the D flag

AddOperands == 0..255

AddAccumulators == 0..255

AddInit == [op |-> "init", A |-> 0, M |-> 0, P |-> 0]

\* opcode $65 is ADC zp and $E5 is SBC zp; U and I are set as reset leaves
\* them
InitAdd ==
    \E a \in AddAccumulators, operand \in AddOperands, c \in {0, 1}, d \in {0, D} :
        \E m \in {load_rom(NmiProgram(0))} :
            /\ Start([m EXCEPT !.cpu.A = a, !.cpu.P = 36 + c + d,
                               !.cpu.addr_abs = 16,
                               !.ram = (16 :> operand) @@ @])
            /\ hist = HistInit(m)
            /\ obs = AddInit

AddAdc ==
    /\ obs.op = "init"
    /\ \E r \in {ADC([Machine EXCEPT !.cpu.opcode = 101])} : Commit(r.m)
    /\ obs' = [op |-> "adc", A |-> cpu.A, M |-> RamByte(Machine, 16), P |-> cpu.P]
    /\ UNCHANGED hist

AddSbc ==
    /\ obs.op = "init"
    /\ \E r \in {SBC([Machine EXCEPT !.cpu.opcode = 229])} : Commit(r.m)
    /\ obs' = [op |-> "sbc", A |-> cpu.A, M |-> 255 - RamByte(Machine, 16),
               P |-> cpu.P]
    /\ UNCHANGED hist

NextAdd == AddAdc \/ AddSbc

SpecAdd == InitAdd /\ [][NextAdd]_vars

\* the 9-bit sum of the accumulator, the operand added and the carry that
\* the operation met (for SBC the operand added is M xor $FF)
AddSum == obs.A + obs.M + (obs.P % 2)

\* C31: ADC leaves A = (A + M + C) mod 256, C = bit 8 of the sum, Z and N
\* from the 8-bit result, and V set exactly when A and M have the same
\* sign and the result has the other one; SBC does the same with M xor $FF
\* for M; the D flag has no part in it and the other flags are kept.
Claim_C31 ==
    obs.op \in {"adc", "sbc"} =>
        /\ cpu.A = AddSum % 256
        /\ get_flag(cpu.P, C) = AddSum \div 256
        /\ get_flag(cpu.P, Z) = (IF AddSum % 256 = 0 THEN 1 ELSE 0)
        /\ get_flag(cpu.P, N) = (AddSum % 256) \div 128
        /\ get_flag(cpu.P, V) =
              (IF (obs.A \div 128) = (obs.M \div 128)
                  /\ (obs.A \div 128) # ((AddSum % 256) \div 128)
                 THEN 1 ELSE 0)
        /\ BitAnd(cpu.P, 60) = BitAnd(obs.P, 60)

\* $50 + $50 with carry clear has given $A0 with N and V set, in decimal
\* mode
Witness_C31 ==
    /\ obs.op = "adc" /\ obs.A = 80 /\ obs.M = 80 /\ obs.P = 36 + D
    /\ cpu.A = 160
    /\ get_flag(cpu.P, N) = 1 /\ get_flag(cpu.P, V) = 1
    /\ get_flag(cpu.P, Z) = 0 /\ get_flag(cpu.P, C) = 0

----------------------------------------------------------------------------
\* ROM files and the loader (Cartridge::Cartridge, Cartridge::load_ines,
\* Cartridge::load_nes2, Cartridge::create_mapper, Emulator::load_rom).
\* A file is its size, its leading bytes and the byte that fills the rest
\* of it; byte i of the file is RomData(file, i) for i < file.size.

RomData(file, i) == IF i < Len(file.head) THEN file.head[i + 1] ELSE file.fill

\* the Cartridge object before the constructor has parsed anything
NewCartridge ==
    [NoCartridge EXCEPT !.present = TRUE]
    @@ [valid |-> FALSE, mapper_id |-> 0, mirror_mode |-> "HORIZONTAL",
        battery_backed |-> FALSE, prg_size |-> 0, chr_size |-> 0,
        prg_ram_size |-> 0, mapper |-> "none"]

\* the PRG bytes are those of the file from offset on: all of them
\* file.fill, so prg_rom lists no byte that differs.  The CHR buffer is
\* listed byte by byte when it comes from the file and is all zero, hence
\* sparse, when it is CHR RAM.
load_ines(c, file, dirty_header) ==
    LET flags6    == RomData(file, 6)
        mapper1   == flags6 \div 16
        mapper2   == IF dirty_header THEN 0 ELSE RomData(file, 7) \div 16
        offset    == 16 + (IF Bit(flags6, 2) = 1 THEN 512 ELSE 0)
        prg_size  == RomData(file, 4) * 16384
        chr_off   == offset + prg_size
        chr_want  == RomData(file, 5) * 8192
        chr_size  == IF RomData(file, 5) = 0 THEN 8192
                     ELSE IF chr_off + chr_want > file.size
                          THEN file.size - chr_off ELSE chr_want
        parsed    == [c EXCEPT !.prg_banks = RomData(file, 4),
                               !.chr_banks = RomData(file, 5),
                               !.mapper_id = (mapper1 + (mapper2 * 16)) % 256,
                               !.mirror_mode =
                                   IF Bit(flags6, 3) = 1 THEN "FOUR_SCREEN"
                                   ELSE IF Bit(flags6, 0) = 1 THEN "VERTICAL"
                                   ELSE "HORIZONTAL",
                               !.battery_backed = (Bit(flags6, 1) = 1)]
    IN  IF offset + prg_size > file.size
        THEN [ok |-> FALSE, cart |-> parsed]
        ELSE [ok |-> TRUE,
              cart |-> [parsed EXCEPT
                  !.prg_size = prg_size,
                  !.prg_rom = <<>>,
                  !.fill = file.fill,
                  !.chr_size = chr_size,
                  !.chr_rom = IF RomData(file, 5) = 0 THEN <<>>
                              ELSE [i \in 0..(chr_size - 1) |->
                                       RomData(file, chr_off + i)],
                  !.prg_ram_size = 8192]]

\* a size field of NES 2.0: the low byte and the extension nibble, or the
\* exponent-multiplier form when the nibble is $F; the members are 8 bits
\* wide
Nes2Banks(lsb, msb, unit) ==
    IF msb = 15
    THEN (((2 ^ ((lsb \div 4) % 64)) * (((lsb % 4) * 2) + 1)) \div unit) % 256
    ELSE (lsb + (msb * 256)) % 256

load_nes2(c, file) ==
    LET mapper_lo  == RomData(file, 6) \div 16
        mapper_mid == RomData(file, 7) \div 16
        mapper_hi  == RomData(file, 8) % 16
    IN  load_ines([c EXCEPT
                      !.prg_banks = Nes2Banks(RomData(file, 4),
                                              RomData(file, 9) % 16, 16384),
                      !.chr_banks = Nes2Banks(RomData(file, 5),
                                              RomData(file, 9) \div 16, 8192),
                      !.mapper_id = (mapper_lo + (mapper_mid * 16)
                                               + (mapper_hi * 256)) % 256],
                  file, FALSE)

Cartridge_create_mapper(c) ==
    [c EXCEPT !.mapper =
        CASE c.mapper_id = 0 -> "Mapper000"
          [] c.mapper_id = 1 -> "Mapper001"
          [] c.mapper_id = 2 -> "Mapper002"
          [] c.mapper_id = 3 -> "Mapper003"
          [] c.mapper_id = 4 -> "Mapper004"
          [] c.mapper_id = 7 -> "Mapper007"
          [] c.mapper_id = 9 -> "Mapper009"
          [] c.mapper_id = 10 -> "Mapper010"
          [] c.mapper_id = 11 -> "Mapper011"
          [] c.mapper_id = 66 -> "Mapper066"
          [] c.mapper_id = 71 -> "Mapper071"
          [] c.mapper_id = 206 -> "Mapper206"
          [] OTHER -> "Mapper000"]

MagicOk(file) ==
    /\ RomData(file, 0) = 78 /\ RomData(file, 1) = 69
    /\ RomData(file, 2) = 83 /\ RomData(file, 3) = 26

Cartridge_Cartridge(file) ==
    IF file.size < 16 THEN NewCartridge
    ELSE IF ~MagicOk(file) THEN NewCartridge
    ELSE \* the loaders' result is bound once
         Only({ IF r.ok
                THEN Cartridge_create_mapper([r.cart EXCEPT !.valid = TRUE])
                ELSE r.cart
                : r \in {IF BitAnd(RomData(file, 7), 12) = 8
                         THEN load_nes2(NewCartridge, file)
                         ELSE load_ines(NewCartridge, file,
                                        \E i \in 12..15 : RomData(file, i) # 0)} })

Bus_insert_cartridge(m, cart) == [m EXCEPT !.cartridge = cart]

\* variant: the cartridge is inserted whether or not it is valid
Emulator_load_rom_unchecked(m, file) ==
    Ret(TRUE, Bus_reset(Bus_insert_cartridge(m, Cartridge_Cartridge(file))))

\* the value returned and the machine left behind; a cartridge that is not
\* valid is dropped and the Bus is not touched
Emulator_load_rom(m, file) ==
    Only({ IF ~cart.valid
           THEN Ret(FALSE, m)
           ELSE Ret(TRUE, Bus_reset(Bus_insert_cartridge(m, cart)))
           : cart \in {Cartridge_Cartridge(file)} })

----------------------------------------------------------------------------
\* Loader specification: the emulator as constructed, ROM files loaded one
\* after the other and the system clocked in between

MaxRomLoads == 2

MaxRomTicks == 4

Header(b4, b5, b6, b7, b8, b9) ==
    <<78, 69, 83, 26, b4, b5, b6, b7, b8, b9, 0, 0, 0, 0, 0, 0>>

RomFile(head, size) == [head |-> head, size |-> size, fill |-> 234]

\* NROM with all of its CHR, with 16 bytes of it, with none of it, and with
\* CHR RAM; a file of 15 bytes and an empty one; a wrong magic byte; two
\* banks declared and one present; a trainer flag that leaves less than
\* the bank declared, and one with its trainer; a dirty header; NES 2.0
\* headers with and without extension bits, one of them short of its PRG
RomFiles ==
    { RomFile(Header(1, 1, 0, 0, 0, 0), 16 + 16384 + 8192),
      RomFile(Header(1, 1, 0, 0, 0, 0), 16 + 16384 + 16),
      RomFile(Header(1, 2, 0, 0, 0, 0), 16 + 16384),
      RomFile(Header(1, 0, 1, 0, 0, 0), 16 + 16384),
      RomFile(SubSeq(Header(1, 1, 0, 0, 0, 0), 1, 15), 15),
      RomFile(<<>>, 0),
      RomFile(<<78, 69, 83, 0, 1, 0, 0, 0, 0, 0, 0, 0, 0, 0, 0, 0>>, 16 + 16384),
      RomFile(Header(2, 1, 0, 0, 0, 0), 16 + 16384),
      RomFile(Header(1, 0, 4, 0, 0, 0), 16 + 16384),
      RomFile(Header(1, 0, 6, 0, 0, 0), 16 + 512 + 16384),
      RomFile(<<78, 69, 83, 26, 1, 0, 16, 16, 0, 0, 0, 0, 0, 0, 0, 1>>, 16 + 16384),
      RomFile(Header(1, 0, 0, 8, 0, 0), 16 + 16384),
      RomFile(Header(1, 0, 64, 8, 0, 0), 16 + 16384),
      RomFile(Header(1, 0, 0, 8, 1, 0), 16 + 16384),
      RomFile(Header(1, 0, 0, 8, 0, 1), 16 + 16384),
      RomFile(Header(1, 1, 0, 8, 0, 16), 16 + 16384 + 16),
      RomFile(Header(2, 0, 0, 8, 0, 0), 16 + 16384) }

RomInit ==
    [op |-> "init", loads |-> 0, ticks |-> 0, ret |-> FALSE,
     file |-> RomFile(<<>>, 0), made |-> NoCartridge, before |-> PowerOn]

InitRom ==
    /\ Start(PowerOn)
    /\ hist = HistInit(PowerOn)
    /\ obs = RomInit

\* Emulator::load_rom on one of the files; the Cartridge object it
\* constructed and the machine it met are kept for the claims
RomLoad ==
    /\ obs.loads < MaxRomLoads
    /\ \E file \in RomFiles :
        \E r \in {Emulator_load_rom(Machine, file)} :
            /\ Commit(r.m)
            /\ obs' = [op |-> "load", loads |-> obs.loads + 1, ticks |-> 0,
                       ret |-> r.data, file |-> file,
                       made |-> Cartridge_Cartridge(file), before |-> Machine]
    /\ UNCHANGED hist

\* Bus::clock; the bus of this model reads the cartridge through mapper 000
RomTick ==
    /\ obs.ticks < MaxRomTicks
    /\ cartridge.present
    /\ cartridge.mapper = "Mapper000"
    /\ \E m \in {Bus_clock(Machine)} : Commit(m)
    /\ obs' = [obs EXCEPT !.op = "tick", !.ticks = @ + 1]
    /\ UNCHANGED hist

NextRom == RomLoad \/ RomTick

SpecRom == InitRom /\ [][NextRom]_vars

\* where the CHR data of an iNES file starts, and how much of it is declared
ChrStart(file) ==
    16 + (IF Bit(RomData(file, 6), 2) = 1 THEN 512 ELSE 0)
       + (RomData(file, 4) * 16384)

ChrDeclared(file) == RomData(file, 5) * 8192

IsNes2(file) == (RomData(file, 7) \div 4) % 4 = 2

\* C32: an iNES file that holds its PRG ROM and less CHR data than byte 5
\* declares is loaded, and its CHR buffer has the declared size: the bytes
\* of the file followed by zeros.
Claim_C32 ==
    (/\ obs.op = "load"
     /\ obs.file.size >= 16 /\ MagicOk(obs.file) /\ ~IsNes2(obs.file)
     /\ ChrStart(obs.file) <= obs.file.size
     /\ ChrStart(obs.file) + ChrDeclared(obs.file) > obs.file.size)
    => /\ obs.ret
       /\ cartridge.chr_size = ChrDeclared(obs.file)
       /\ \A i \in 0..(ChrDeclared(obs.file) - 1) :
             /\ i \in DOMAIN cartridge.chr_rom
             /\ cartridge.chr_rom[i] =
                   (IF ChrStart(obs.file) + i < obs.file.size
                    THEN RomData(obs.file, ChrStart(obs.file) + i) ELSE 0)

\* C33: after a NES 2.0 file is loaded the mapper id is the 12-bit value
\* of bytes 6, 7 and 8 and the bank counts have the nibbles of byte 9 as
\* their high bits.
Claim_C33 ==
    (obs.op = "load" /\ obs.ret /\ IsNes2(obs.file))
    => /\ cartridge.mapper_id = (RomData(obs.file, 6) \div 16)
                                + ((RomData(obs.file, 7) \div 16) * 16)
                                + ((RomData(obs.file, 8) % 16) * 256)
       /\ cartridge.prg_banks = RomData(obs.file, 4)
                                + ((RomData(obs.file, 9) % 16) * 256)
       /\ cartridge.chr_banks = RomData(obs.file, 5)
                                + ((RomData(obs.file, 9) \div 16) * 256)

\* a file that is too short for a header, has no magic, or has less PRG
\* data behind its header (and trainer) than byte 4 declares
Rejectable(file) ==
    \/ file.size < 16
    \/ ~MagicOk(file)
    \/ ChrStart(file) > file.size

----------------------------------------------------------------------------
\* Mapper IRQ specification: an MMC3 board of 16 KiB on the bus.  With one
\* PRG bank the power-on banks put the image at $C000-$FFFF as NROM does;
\* the pattern tables and nametables are all zero.  The program sets the
\* IRQ latch, requests a reload, enables the IRQ and the background, runs
\* gap NOPs and then op (CLI or NOP).

MaxIrqTicks == 720

\* LDA #latch ; STA $C000 ; STA $C001 ; STA $E001 ; LDA #$08 ; STA $2001 ;
\* NOP * gap ; op
IrqProgram(latch, gap, op) ==
    Image(49152, <<169, latch, 141, 0, 192, 141, 1, 192, 141, 1, 224,
                   169, 8, 141, 1, 32>>
                 \o [k \in 1..gap |-> 234] \o <<op>>)
    @@ [chip |-> Mapper_create(4, 1, 1)]

IrqPrograms ==
    { IrqProgram(latch, v[1], v[2]) :
        latch \in {0, 1}, v \in {<<0, 88>>, <<0, 234>>, <<40, 88>>} }

IrqInit == [op |-> "init", ticks |-> 0, irq |-> FALSE, cpu |-> <<>>, ram |-> <<>>]

InitIrq ==
    \E cart \in IrqPrograms :
        \E m \in {load_rom(cart)} :
            /\ Start(m)
            /\ hist = HistInit(m)
            /\ obs = IrqInit

\* the machine of a system tick when the chips have been clocked and the
\* interrupt lines are about to be looked at
BeforeInterrupts(m) ==
    Only({ IF m2.ppu.nmi THEN CPU_nmi([m2 EXCEPT !.ppu.nmi = FALSE]) ELSE m2
           : m2 \in { IF m1.bus.system_clock_counter % 3 = 0
                      THEN Bus_cpu_slot(m1) ELSE m1
                      : m1 \in {PPU_clock(m)} } })

\* Bus::clock; the mapper's IRQ line, the CPU and the RAM as the IRQ test
\* of the tick met them are kept
IrqTick ==
    /\ obs.ticks < MaxIrqTicks
    /\ \E m \in {Bus_clock(Machine)} : Commit(m)
    /\ \E b \in {BeforeInterrupts(Machine)} :
          obs' = [op |-> "tick", ticks |-> obs.ticks + 1,
                  irq |-> Cartridge_irq_state(b), cpu |-> b.cpu, ram |-> b.ram]
    /\ UNCHANGED hist

NextIrq == IrqTick

SpecIrq == InitIrq /\ [][NextIrq]_vars

\* C35: when the mapper's IRQ line is up at the end of a tick and I is
\* set, the line is taken down and the CPU is called to no effect (PC, SP,
\* P, cycles_remaining and the stack are as they were); nothing remains
\* pending: the CPU enters the handler only in a tick whose line is up
\* while I is clear.
Claim_C35 ==
    obs.op = "tick" =>
        /\ (obs.irq /\ get_flag(obs.cpu.P, I) = 1) =>
              /\ Called(calls, "cpu.irq")
              /\ ~Cartridge_irq_state(Machine)
              /\ cpu = obs.cpu
              /\ ram = obs.ram
        /\ (cpu # obs.cpu) =>
              /\ obs.irq /\ get_flag(obs.cpu.P, I) = 0
              /\ cpu.PC = IrqHandler /\ cpu.SP = W8(obs.cpu.SP - 3)

\* the line has come up with I set, after the program had all of its
\* registers written, and the CPU state is as it was
Witness_C35 ==
    /\ obs.op = "tick" /\ obs.irq /\ get_flag(obs.cpu.P, I) = 1
    /\ cartridge.chip.mapper.irq_enable
    /\ ~cartridge.chip.mapper.irq_active
    /\ cpu = obs.cpu

----------------------------------------------------------------------------
\* Reset specification: an MMC1 board of 32 KiB on the bus.  At power-on
\* $8000-$BFFF shows bank 0 and $C000-$FFFF the last bank, whose reset
\* vector points at the program in bank 0.  The program writes $08 to the
\* control register, bit by bit, which puts the bank selected by the PRG
\* register (bank 0) at $C000-$FFFF; bank 0 has $8040 where the reset
\* vector is read.

MaxRstTicks == 130

MaxRstResets == 1

\* LDA #$00 ; STA $8000 ; STA $8000 ; STA $8000 ; LDA #$01 ; STA $8000 ;
\* LDA #$00 ; STA $8000
RstProgram ==
    [present |-> TRUE, prg_banks |-> 2, fill |-> 234,
     chr_banks |-> 1, chr_rom |-> <<>>,
     prg_rom |-> Place(0, <<169, 0, 141, 0, 128, 141, 0, 128, 141, 0, 128,
                            169, 1, 141, 0, 128, 169, 0, 141, 0, 128>>)
                 @@ Place(16380, <<64, 128>>)
                 @@ Place(32764, <<0, 128>>),
     chip |-> Mapper_create(1, 2, 1)]

RstInit == [op |-> "init", ticks |-> 0, resets |-> 0]

InitRst ==
    \E m \in {load_rom(RstProgram)} :
        /\ Start(m)
        /\ hist = HistInit(m)
        /\ obs = RstInit

RstTick ==
    /\ obs.ticks < MaxRstTicks
    /\ \E m \in {Bus_clock(Machine)} : Commit(m)
    /\ obs' = [obs EXCEPT !.op = "tick", !.ticks = @ + 1]
    /\ UNCHANGED hist

\* Emulator::reset
RstReset ==
    /\ obs.resets < MaxRstResets
    /\ \E m \in {Bus_reset(Machine)} : Commit(m)
    /\ obs' = [obs EXCEPT !.op = "reset", !.resets = @ + 1]
    /\ UNCHANGED hist

NextRst == RstTick \/ RstReset

SpecRst == InitRst /\ [][NextRst]_vars

\* C37: after a reset the mapper has its power-on registers and the CPU
\* starts at the reset vector of the power-on bank mapping ($8000),
\* whatever the program wrote to the mapper before.
Claim_C37 ==
    obs.op = "reset" =>
        /\ cartridge.chip = Mapper_create(1, 2, 1)
        /\ cpu.PC = 32768

----------------------------------------------------------------------------
\* The sprite path of PPU::clock: evaluation at cycle 257, the pattern
\* fetch at cycle 340 and render_pixel at cycles 1 to 256, on a PPU record
\* that carries the pixel pipeline.  The background is disabled in this
\* specification: the tile fetches fill shifters that render_pixel does
\* not read, and they are left out.

\* uint8_t sprite_row = scanline - sprite_scanline[i].y
SpriteRow(p, i) == (p.scanline - p.sprite_scanline[i].y) % 256

SpritePatternAddr(p, i) ==
    LET slot    == p.sprite_scanline[i]
        flipped == Bit(slot.attribute, 7) = 1
        row     == IF flipped THEN 7 - (SpriteRow(p, i) % 8)
                   ELSE SpriteRow(p, i) % 8
    IN  IF Bit(p.control, 5) = 0
        THEN (Bit(p.control, 3) * 4096) + (slot.id * 16) + row
        ELSE LET tile == slot.id - (slot.id % 2)
                 top  == IF flipped THEN SpriteRow(p, i) >= 8
                         ELSE SpriteRow(p, i) < 8
             IN  ((slot.id % 2) * 4096)
                 + ((IF top THEN tile ELSE tile + 1) * 16) + row

flip_byte(b) ==
    (Bit(b, 0) * 128) + (Bit(b, 1) * 64) + (Bit(b, 2) * 32) + (Bit(b, 3) * 16)
    + (Bit(b, 4) * 8) + (Bit(b, 5) * 4) + (Bit(b, 6) * 2) + Bit(b, 7)

\* the pattern byte of slot i, plane 0 or 1, as the shifter receives it
SpritePatternBits(m, i, plane) ==
    Only({ IF Bit(m.ppu.sprite_scanline[i].attribute, 6) = 1
           THEN flip_byte(b) ELSE b
           : b \in {PPU_ppu_read(m, SpritePatternAddr(m.ppu, i) + (8 * plane))} })

sprite_fetch(m) ==
    [m EXCEPT
       !.ppu.sprite_shifter_pattern_lo =
           [i \in 0..7 |-> IF i < m.ppu.sprite_count
                           THEN SpritePatternBits(m, i, 0) ELSE @[i]],
       !.ppu.sprite_shifter_pattern_hi =
           [i \in 0..7 |-> IF i < m.ppu.sprite_count
                           THEN SpritePatternBits(m, i, 1) ELSE @[i]]]

\* the machine that render_pixel meets: the scanline work of the tick is
\* done, the evaluation of cycle 257 has emptied the shifters and the fetch
\* of cycle 340 has filled them
PixelStage(m) ==
    Only({ IF m.ppu.scanline >= -1 /\ m.ppu.scanline < 240 /\ m1.ppu.cycle = 340
           THEN sprite_fetch(m1) ELSE m1
           : m1 \in { [m EXCEPT !.ppu =
               PPU_prerender(PPU_vblank(
                   IF m.ppu.scanline >= -1 /\ m.ppu.scanline < 240
                   THEN IF m.ppu.cycle = 257 /\ m.ppu.scanline >= 0
                        THEN [PPU_visible(m.ppu) EXCEPT
                                 !.sprite_shifter_pattern_lo = [i \in 0..7 |-> 0],
                                 !.sprite_shifter_pattern_hi = [i \in 0..7 |-> 0]]
                        ELSE PPU_visible(m.ppu)
                   ELSE m.ppu))] } })

Rendered(p) ==
    p.scanline >= 0 /\ p.scanline < 240 /\ p.cycle >= 1 /\ p.cycle < 257

PPU_clock_pixels(m) ==
    Only({ [m2 EXCEPT !.ppu = PPU_advance(@),
                      !.cartridge = IF ScanlinePulse(m2.ppu)
                                    THEN Cartridge_scanline(@) ELSE @]
           : m2 \in { IF Rendered(m1.ppu) THEN render_pixel(m1) ELSE m1
                      : m1 \in {PixelStage(m)} } })

----------------------------------------------------------------------------
\* Sprite line specification: one sprite in OAM entry 0 at X = 0 with an
\* opaque tile, sprites enabled with the left column shown, and the PPU
\* clocked from reset through its first frame into scanline 0 of the next

MaxSprTicks == 89400

\* Y of the sprite and the sprite-size bit of $2000
SprCases == {<<0, 0>>, <<239, 0>>, <<232, 32>>}

\* the first four tiles of pattern table 0 have every pixel set
SprCartridge == [NmiProgram(0) EXCEPT !.chr_rom = [a \in 0..63 |-> 255]]

Pipeline ==
    [bg_shifter_pattern_lo |-> 0, bg_shifter_pattern_hi |-> 0,
     bg_shifter_attrib_lo |-> 0, bg_shifter_attrib_hi |-> 0,
     sprite_zero_being_rendered |-> FALSE,
     sprite_shifter_pattern_lo |-> [i \in 0..7 |-> 0],
     sprite_shifter_pattern_hi |-> [i \in 0..7 |-> 0]]

SprInit == [op |-> "init", ticks |-> 0, scanline |-> 0, cycle |-> 0, fg |-> 0]

\* after reset the OAM is filled and $2000 and $2001 are written
InitSpr ==
    \E c \in SprCases :
        \E m0 \in {load_rom(SprCartridge)} :
            \E m \in {PPU_cpu_write(
                        PPU_cpu_write(
                            [m0 EXCEPT !.ppu = [Pipeline @@ m0.ppu EXCEPT
                                                  !.oam = OamPattern(0 :> c[1])]],
                            0, c[2]),
                        1, 20)} :
                /\ Start(m)
                /\ hist = HistInit(m0)
                /\ obs = SprInit

\* PPU::clock; the scanline and cycle it met and the sprite pixel that
\* render_pixel made, 0 when it made none or was not called
SprTick ==
    /\ obs.ticks < MaxSprTicks
    /\ \E m \in {PPU_clock_pixels(Machine)} : Commit(m)
    /\ \E s \in {PixelStage(Machine)} :
          obs' = [op |-> "tick", ticks |-> obs.ticks + 1,
                  scanline |-> ppu.scanline, cycle |-> ppu.cycle,
                  fg |-> IF Rendered(s.ppu) THEN FgPixel(s.ppu).pixel ELSE 0]
    /\ UNCHANGED hist

NextSpr == SprTick

SpecSpr == InitSpr /\ [][NextSpr]_vars

SpriteHeight(p) == IF Bit(p.control, 5) = 1 THEN 16 ELSE 8

\* C38: a sprite pixel is made on scanline s only for a sprite whose OAM Y
\* byte y has y + 1 <= s <= y + height; in particular none is made on
\* scanline 0.
Claim_C38 ==
    (obs.op = "tick" /\ obs.fg # 0) =>
        \E e \in 0..63 :
            /\ ppu.oam[4 * e] + 1 <= obs.scanline
            /\ obs.scanline <= ppu.oam[4 * e] + SpriteHeight(ppu)

----------------------------------------------------------------------------
\* The pulse channels (APU::Pulse, the $4000-$4007 arms of APU::cpu_write,
\* APU::clock_quarter_frame and APU::clock_half_frame)

length_table ==
    <<10, 254, 20, 2, 40, 4, 80, 6, 160, 8, 60, 10, 14, 12, 26, 14,
      12, 16, 24, 18, 48, 20, 96, 22, 192, 24, 72, 26, 16, 28, 32, 30>>

\* pulse1 = {} : every member zero
PulseZero ==
    [enabled |-> FALSE, duty_cycle |-> 0, halt_length |-> FALSE,
     constant_volume |-> FALSE, volume |-> 0,
     sweep_enabled |-> FALSE, sweep_period |-> 0, sweep_negate |-> FALSE,
     sweep_shift |-> 0, sweep_counter |-> 0, sweep_reload |-> FALSE,
     timer_period |-> 0, timer_counter |-> 0, length_counter |-> 0,
     envelope_counter |-> 0, envelope_volume |-> 0, envelope_start |-> FALSE,
     sequence_counter |-> 0, output |-> 0]

Pulse_clock_envelope(p) ==
    IF p.envelope_start
      THEN [p EXCEPT !.envelope_start = FALSE, !.envelope_volume = 15,
                     !.envelope_counter = p.volume]
    ELSE IF p.envelope_counter = 0
      THEN [p EXCEPT !.envelope_counter = p.volume,
                     !.envelope_volume =
                         IF @ = 0 THEN (IF p.halt_length THEN 15 ELSE 0)
                         ELSE @ - 1]
    ELSE [p EXCEPT !.envelope_counter = @ - 1]

Pulse_clock_length(p) ==
    IF ~p.halt_length /\ p.length_counter > 0
      THEN [p EXCEPT !.length_counter = @ - 1]
      ELSE p

\* the period moves by its own value shifted right; nothing bounds the sum
Pulse_clock_sweep(p, channel_one) ==
    Only({ IF q.sweep_counter = 0 \/ q.sweep_reload
             THEN [q EXCEPT !.sweep_counter = q.sweep_period,
                            !.sweep_reload = FALSE]
             ELSE [q EXCEPT !.sweep_counter = @ - 1] :
           q \in { IF /\ p.sweep_counter = 0
                      /\ p.sweep_enabled
                      /\ p.sweep_shift > 0
                      /\ p.timer_period >= 8
                     THEN [p EXCEPT !.timer_period =
                             IF p.sweep_negate
                               THEN W16(@ + 65536 - (@ \div (2 ^ p.sweep_shift))
                                          + (IF channel_one THEN 65535 ELSE 0))
                               ELSE W16(@ + (@ \div (2 ^ p.sweep_shift)))]
                     ELSE p } })

\* the four registers of one pulse channel, reg = addr & 3
Pulse_cpu_write(p, reg, data) ==
    CASE reg = 0 ->
           [p EXCEPT !.duty_cycle = BitAnd(data \div 64, 3),
                     !.halt_length = (Bit(data, 5) = 1),
                     !.constant_volume = (Bit(data, 4) = 1),
                     !.volume = BitAnd(data, 15)]
      [] reg = 1 ->
           [p EXCEPT !.sweep_enabled = (Bit(data, 7) = 1),
                     !.sweep_period = BitAnd(data \div 16, 7),
                     !.sweep_negate = (Bit(data, 3) = 1),
                     !.sweep_shift = BitAnd(data, 7),
                     !.sweep_reload = TRUE]
      [] reg = 2 ->
           [p EXCEPT !.timer_period = (@ \div 256) * 256 + data]
      [] reg = 3 ->
           [p EXCEPT !.timer_period = (@ % 256) + BitAnd(data, 7) * 256,
                     !.length_counter = length_table[BitAnd(data \div 8, 31) + 1],
                     !.sequence_counter = 0,
                     !.envelope_start = TRUE]

\* APU::cpu_write with the pulse registers; the other registers as before
APU_cpu_write_pulse(m, addr, data) ==
    IF addr >= 16384 /\ addr <= 16387
      THEN [m EXCEPT !.apu.pulse1 = Pulse_cpu_write(@, addr - 16384, data)]
    ELSE IF addr >= 16388 /\ addr <= 16391
      THEN [m EXCEPT !.apu.pulse2 = Pulse_cpu_write(@, addr - 16388, data)]
    ELSE IF addr = 16407
      THEN Only({ IF m1.apu.frame_counter_mode
                    THEN [m1 EXCEPT
                            !.apu.pulse1 =
                                Pulse_clock_sweep(
                                    Pulse_clock_length(Pulse_clock_envelope(@)),
                                    TRUE),
                            !.apu.pulse2 =
                                Pulse_clock_sweep(
                                    Pulse_clock_length(Pulse_clock_envelope(@)),
                                    FALSE)]
                    ELSE m1 :
                  m1 \in {APU_cpu_write(m, addr, data)} })
    ELSE APU_cpu_write(m, addr, data)

----------------------------------------------------------------------------
\* SpecSwp: the pulse registers are written and the frame counter register
\* is written with bit 7 set, which clocks a half frame at once

MaxSwpClocks == 3

MaxSwpWrites == 4

\* sweep off; sweep on, shift 1, adding; sweep on, shift 1, subtracting
SwpSweepData == {0, 129, 137}

SwpWrites ==
    ({16385, 16389} \X SwpSweepData)
        \cup ({16386, 16390} \X {8, 255})
        \cup ({16387, 16391} \X {0, 7})
        \cup ({16384, 16388} \X {32})

SwpInit == [op |-> "init", writes |-> 0, clocks |-> 0]

InitSwp ==
    \E m \in {load_rom(NmiProgram(0))} :
        /\ Start([m EXCEPT !.apu = @ @@ [pulse1 |-> PulseZero,
                                         pulse2 |-> PulseZero]])
        /\ hist = HistInit(m)
        /\ obs = SwpInit

SwpWrite ==
    /\ obs.writes < MaxSwpWrites
    /\ \E w \in SwpWrites :
          \E m \in {APU_cpu_write_pulse(Machine, w[1], w[2])} : Commit(m)
    /\ obs' = [obs EXCEPT !.op = "write", !.writes = @ + 1]
    /\ UNCHANGED hist

SwpHalfFrame ==
    /\ obs.clocks < MaxSwpClocks
    /\ \E m \in {APU_cpu_write_pulse(Machine, 16407, 128)} : Commit(m)
    /\ obs' = [obs EXCEPT !.op = "half", !.clocks = @ + 1]
    /\ UNCHANGED hist

NextSwp == SwpWrite \/ SwpHalfFrame

SpecSwp == InitSwp /\ [][NextSwp]_vars

\* C39: for both pulse channels timer_period <= $7FF after any sequence of
\* writes to the timer registers ($4002/$4003, $4006/$4007) and the sweep
\* registers and any number of half-frame sweep clocks, with or without
\* negate.
Claim_C39 ==
    /\ apu.pulse1.timer_period <= 2047
    /\ apu.pulse2.timer_period <= 2047

----------------------------------------------------------------------------
\* The audio ring buffer of the frontend (class AudioBuffer): write, read
\* and clear run under one mutex; a sample is a number, 0 standing for 0.0f

BUFFER_SIZE == 8192

AudioBuffer_AudioBuffer ==
    [buffer |-> [i \in 0..(BUFFER_SIZE - 1) |-> 0],
     write_pos |-> 0, read_pos |-> 0, count |-> 0]

\* the body of write with the new sample stored over the oldest one when
\* the buffer is full
AudioBuffer_write_over(b, sample) ==
    [b EXCEPT !.buffer[b.write_pos] = sample,
              !.write_pos = (@ + 1) % BUFFER_SIZE,
              !.count = @ + 1]

\* the body of write between the lock and the return
AudioBuffer_write(b, sample) ==
    IF b.count < BUFFER_SIZE
      THEN [b EXCEPT !.buffer[b.write_pos] = sample,
                     !.write_pos = (@ + 1) % BUFFER_SIZE,
                     !.count = @ + 1]
      ELSE b

\* the body of read: the returned sample and the buffer afterwards
AudioBuffer_read(b) ==
    IF b.count > 0
      THEN [data |-> b.buffer[b.read_pos],
            b |-> [b EXCEPT !.read_pos = (@ + 1) % BUFFER_SIZE,
                            !.count = @ - 1]]
      ELSE [data |-> 0, b |-> b]

AudioBuffer_clear(b) == AudioBuffer_AudioBuffer

----------------------------------------------------------------------------
\* SpecAud: the emulator thread (Frontend::run) calls write and clear, the
\* audio thread (Frontend::audio_callback) calls read.  obs holds the
\* buffer, the owner of the mutex and the position of each thread; hist
\* holds the samples accepted and not yet read and what the last body did.
\* The samples written are numbered 1, 2, 3, ... in the order of the calls.

MaxAudWrites == 4

MaxAudReads == 4

MaxAudClears == 1

\* the runs start after this many writes and reads, none of them on a full
\* or an empty buffer: a fresh buffer, one two samples short of full, and
\* one two samples short of full whose positions are about to wrap
AudStarts == {<<0, 0>>, <<8190, 0>>, <<16381, 8191>>}

\* the buffer after the samples 1 .. written went in and the first taken
\* of them came out
AudBuffer(written, taken) ==
    [buffer |-> [i \in 0..(BUFFER_SIZE - 1) |->
                    IF written < i + 1 THEN 0
                    ELSE i + 1 + BUFFER_SIZE * ((written - i - 1) \div BUFFER_SIZE)],
     write_pos |-> written % BUFFER_SIZE,
     read_pos |-> taken % BUFFER_SIZE,
     count |-> written - taken]

NoBody == [op |-> "none", ret |-> 0, expect |-> 0, full |-> FALSE,
           empty |-> FALSE, same |-> TRUE, fresh |-> TRUE]

AudKeep == UNCHANGED <<cpu, ram, ppu, apu, bus, cartridge, calls>>

InitAud ==
    \E s \in AudStarts :
        /\ Start(load_rom(NmiProgram(0)))
        /\ obs = [audio |-> AudBuffer(s[1], s[2]), mutex |-> "free",
                  emu |-> "idle", sample |-> 0, cb |-> "idle", ret |-> 0]
        /\ hist = [pending |-> [k \in 1..(s[1] - s[2]) |-> s[2] + k],
                   next |-> s[1] + 1, seen |-> {},
                   writes |-> 0, reads |-> 0, clears |-> 0,
                   drops |-> 0, empties |-> 0, waited |-> FALSE,
                   last |-> NoBody]

\* the emulator thread reaches g_audio_buffer.write(sample) or, on Ctrl+R,
\* g_audio_buffer.clear()
AudCallWrite ==
    /\ obs.emu = "idle"
    /\ hist.writes < MaxAudWrites
    /\ obs' = [obs EXCEPT !.emu = "write_lock", !.sample = hist.next]
    /\ hist' = [hist EXCEPT !.writes = @ + 1, !.next = @ + 1]
    /\ AudKeep

AudCallClear ==
    /\ obs.emu = "idle"
    /\ hist.clears < MaxAudClears
    /\ obs' = [obs EXCEPT !.emu = "clear_lock"]
    /\ hist' = [hist EXCEPT !.clears = @ + 1]
    /\ AudKeep

\* std::lock_guard: the thread goes on when the mutex is free
AudEmuLock ==
    /\ obs.emu \in {"write_lock", "clear_lock"}
    /\ obs.mutex = "free"
    /\ obs' = [obs EXCEPT !.mutex = "emu",
                          !.emu = IF @ = "write_lock" THEN "write_body"
                                  ELSE "clear_body"]
    /\ hist' = [hist EXCEPT !.waited = @ \/ obs.cb = "read_lock"]
    /\ AudKeep

AudWriteBody ==
    /\ obs.emu = "write_body"
    /\ \E b \in {AudioBuffer_write(obs.audio, obs.sample)} :
          /\ obs' = [obs EXCEPT !.audio = b, !.emu = "unlock"]
          /\ hist' = [hist EXCEPT
                        !.pending = IF b.count > obs.audio.count
                                      THEN Append(@, obs.sample) ELSE @,
                        !.drops = IF b.count > obs.audio.count THEN @ ELSE @ + 1,
                        !.last = [NoBody EXCEPT
                                    !.op = "write",
                                    !.full = (Len(hist.pending) = BUFFER_SIZE),
                                    !.same = (b = obs.audio)]]
    /\ AudKeep

AudClearBody ==
    /\ obs.emu = "clear_body"
    /\ obs' = [obs EXCEPT !.audio = AudioBuffer_clear(@), !.emu = "unlock"]
    /\ hist' = [hist EXCEPT !.pending = <<>>,
                            !.last = [NoBody EXCEPT !.op = "clear"]]
    /\ AudKeep

\* the destructor of the lock_guard
AudEmuUnlock ==
    /\ obs.emu = "unlock"
    /\ obs' = [obs EXCEPT !.mutex = "free", !.emu = "idle"]
    /\ UNCHANGED hist
    /\ AudKeep

\* the audio thread asks for the next sample of the stream
AudCallRead ==
    /\ obs.cb = "idle"
    /\ hist.reads < MaxAudReads
    /\ obs' = [obs EXCEPT !.cb = "read_lock"]
    /\ hist' = [hist EXCEPT !.reads = @ + 1]
    /\ AudKeep

AudCbLock ==
    /\ obs.cb = "read_lock"
    /\ obs.mutex = "free"
    /\ obs' = [obs EXCEPT !.mutex = "cb", !.cb = "read_body"]
    /\ hist' = [hist EXCEPT !.waited =
                    @ \/ obs.emu \in {"write_lock", "clear_lock"}]
    /\ AudKeep

AudReadBody ==
    /\ obs.cb = "read_body"
    /\ \E r \in {AudioBuffer_read(obs.audio)} :
          /\ obs' = [obs EXCEPT !.audio = r.b, !.ret = r.data, !.cb = "unlock"]
          /\ hist' = [hist EXCEPT
                        !.pending = IF @ = <<>> THEN @ ELSE Tail(@),
                        !.seen = IF hist.pending = <<>> THEN @
                                 ELSE @ \cup {r.data},
                        !.empties = IF hist.pending = <<>> THEN @ + 1 ELSE @,
                        !.last = [NoBody EXCEPT
                                    !.op = "read",
                                    !.ret = r.data,
                                    !.empty = (hist.pending = <<>>),
                                    !.expect = IF hist.pending = <<>> THEN 0
                                               ELSE Head(hist.pending),
                                    !.same = (r.b = obs.audio),
                                    !.fresh = (r.data \notin hist.seen)]]
    /\ AudKeep

AudCbUnlock ==
    /\ obs.cb = "unlock"
    /\ obs' = [obs EXCEPT !.mutex = "free", !.cb = "idle"]
    /\ UNCHANGED hist
    /\ AudKeep

NextAud ==
    \/ AudCallWrite
    \/ AudCallClear
    \/ AudEmuLock
    \/ AudWriteBody
    \/ AudClearBody
    \/ AudEmuUnlock
    \/ AudCallRead
    \/ AudCbLock
    \/ AudReadBody
    \/ AudCbUnlock

SpecAud == InitAud /\ [][NextAud]_vars

\* C40: under any interleaving of write on the emulator thread, read on the
\* audio thread and clear, 0 <= count <= 8192 and count is the number of
\* samples accepted and not yet read (clear discards the ones waiting);
\* read returns the samples in the order write accepted them and none of
\* them twice; write on a full buffer drops the sample and changes nothing;
\* read on an empty buffer returns 0.0 and changes nothing.
Claim_C40 ==
    /\ obs.audio.count >= 0
    /\ obs.audio.count <= 8192
    /\ obs.audio.count = Len(hist.pending)
    /\ hist.last.op = "read" =>
          /\ hist.last.ret = hist.last.expect
          /\ ~hist.last.empty => hist.last.fresh /\ ~hist.last.same
          /\ hist.last.empty => hist.last.ret = 0 /\ hist.last.same
    /\ hist.last.op = "write" =>
          (hist.last.full <=> hist.last.same)

\* a write was dropped on the full buffer, a read waited for the mutex and
\* took a sample, the buffer was cleared and a read found it empty
Witness_C40 ==
    /\ hist.drops > 0
    /\ hist.seen # {}
    /\ hist.clears > 0
    /\ hist.empties > 0
    /\ hist.waited
    /\ hist.last.op = "read"
    /\ hist.last.empty

====
